---- MODULE Spec2Model ----
(***************************************************************************)
(* Uploadcare Rust client: the REST and Upload clients' request/response   *)
(* handling (ucare/rest/mod.rs, ucare/upload/mod.rs), the two REST         *)
(* authentication schemes (ucare/rest/auth.rs), the upload signature       *)
(* (ucare/upload/auth.rs) and the file-splitting loop of the multipart     *)
(* test (tests/upload.rs).                                                 *)
(*                                                                         *)
(* Strings are TLA+ strings; a byte string is a sequence of 0..255.  The   *)
(* digests of the crypto crate (MD5, SHA-1, SHA-256, HMAC) are computed    *)
(* bit for bit, on 32-bit words kept as two 16-bit halves <<hi, lo>>.      *)
(***************************************************************************)
EXTENDS Integers, Sequences, FiniteSets, TLC

-----------------------------------------------------------------------------
(* State                                                                   *)

VARIABLES
  restClient,     \* None, or Some(rest::Client)
  uploadClient,   \* None, or Some(upload::Client)
  now,            \* the system clock, an instant
  pc,             \* "idle", or "sent" while a call blocks on its response
  who,            \* the client of the call in progress or last made
  sent,           \* Some(request handed to the HTTP layer) while pc = "sent"
  expect,         \* the response type R of that call
  nsent,          \* requests executed by the call in progress or last made
  resp,           \* Some(response) once the call received one
  result,         \* what the last finished call returned
  invoked,        \* the last invocation of a signing routine, if any
  kept,           \* an earlier invocation of a signing routine, if any
  file_len,       \* get_file_chunks: the length of the file at path
  file_pos,       \* the read position of the open file
  list_of_chunks, \* the chunks pushed so far, each <<offset, length>>
  reads,          \* the number of read_to_end calls made
  chunks_pc,      \* "start", "loop", "done" (Ok) or "failed" (Err)
  mp_pc,          \* the multipart test: "start", "parts", "passed", "panicked"
  mp_file,        \* the chunks get_file_chunks returned
  mp_data,        \* `data`: the chunks not yet removed
  mp_started,     \* Some(multipart_data) once multipart_start returned Ok
  mp_next,        \* the position of the `for url in parts` iterator
  mp_log,         \* the calls the test made, with request and result
  callers,        \* threads sharing one upload client: each one's call
  wire,           \* the requests executed so far, in order, with their caller
  sv_pc,          \* a REST service operation: "idle", "called", "sent", "returned"
  sv_call,        \* the operation called last, with its parameters
  sv_req,         \* Some(request it handed to the HTTP layer), if it got there
  sv_out,         \* what the operation returned
  pg_pc,          \* the pagination loop: "list", "loop", "done", "failed", "panicked"
  pg_svc,         \* whose documented loop runs: "file" or "group"
  pg_chain,       \* the server's pages, each with its results and its next link
  pg_next,        \* `next_page` (file) or `cur_page.next` (group)
  pg_files,       \* `files` or `groups`: the results accumulated
  pg_asked,       \* the URLs requested so far, in order
  pg_fail,        \* Some(answer) once the server failed a request
  pg_out          \* the error or panic the loop ended with, if any

clientVars ==
  <<restClient, uploadClient, now, pc, who, sent, expect, nsent, resp, result>>
authVars == <<invoked, kept>>
chunkVars == <<file_len, file_pos, list_of_chunks, reads, chunks_pc>>
flowVars == <<mp_pc, mp_file, mp_data, mp_started, mp_next, mp_log>>
shareVars == <<callers, wire>>
svcVars == <<sv_pc, sv_call, sv_req, sv_out>>
pageVars == <<pg_pc, pg_svc, pg_chain, pg_next, pg_files, pg_asked, pg_fail, pg_out>>
laterVars == <<flowVars, shareVars, svcVars, pageVars>>
vars == <<clientVars, authVars, chunkVars, laterVars>>


-----------------------------------------------------------------------------
(* Strings and bytes                                                       *)

\* printable ASCII without the backquote: codes 32..95 and 97..126
AsciiLo == " !\"#$%&'()*+,-./0123456789:;<=>?@ABCDEFGHIJKLMNOPQRSTUVWXYZ[\\]^_"
AsciiHi == "abcdefghijklmnopqrstuvwxyz{|}~"
Chars(s) == {SubSeq(s, i, i) : i \in 1..Len(s)}
IndexIn(s, c) == CHOOSE i \in 1..Len(s) : SubSeq(s, i, i) = c
OrdTab ==
  [c \in Chars(AsciiLo) \cup Chars(AsciiHi) |->
     IF c \in Chars(AsciiLo) THEN 31 + IndexIn(AsciiLo, c) ELSE 96 + IndexIn(AsciiHi, c)]
Ord(c) == IF c = "\n" THEN 10 ELSE OrdTab[c]
\* str::as_bytes
Bytes(s) == [i \in 1..Len(s) |-> Ord(SubSeq(s, i, i))]

\* position of the first occurrence of the character c in s, 0 when absent
RECURSIVE FindFrom(_, _, _)
FindFrom(s, c, i) ==
  IF i > Len(s) THEN 0
  ELSE IF SubSeq(s, i, i) = c THEN i
  ELSE FindFrom(s, c, i + 1)
Find(s, c) == FindFrom(s, c, 1)
StartsWith(s, p) == Len(s) >= Len(p) /\ SubSeq(s, 1, Len(p)) = p

\* format_args!("{:02x}", byte) over the bytes of a digest, joined with ""
HexDigits == "0123456789abcdef"
HexByte(b) ==
  SubSeq(HexDigits, (b \div 16) + 1, (b \div 16) + 1)
    \o SubSeq(HexDigits, (b % 16) + 1, (b % 16) + 1)
RECURSIVE HexStr(_)
HexStr(bs) == IF Len(bs) = 0 THEN "" ELSE HexByte(Head(bs)) \o HexStr(Tail(bs))

-----------------------------------------------------------------------------
(* 32-bit words                                                            *)

RECURSIVE AndBits(_, _, _)
AndBits(a, b, n) ==
  IF n = 0 THEN 0
  ELSE ((a % 2) * (b % 2)) + 2 * AndBits(a \div 2, b \div 2, n - 1)
And4 == [a \in 0..15 |-> [b \in 0..15 |-> AndBits(a, b, 4)]]
Xor4 == [a \in 0..15 |-> [b \in 0..15 |-> a + b - 2 * AndBits(a, b, 4)]]
Or4 == [a \in 0..15 |-> [b \in 0..15 |-> a + b - AndBits(a, b, 4)]]
Op16(T, a, b) ==
  T[a \div 4096][b \div 4096] * 4096
    + T[(a \div 256) % 16][(b \div 256) % 16] * 256
    + T[(a \div 16) % 16][(b \div 16) % 16] * 16
    + T[a % 16][b % 16]
WAnd(a, b) == <<Op16(And4, a[1], b[1]), Op16(And4, a[2], b[2])>>
WOr(a, b) == <<Op16(Or4, a[1], b[1]), Op16(Or4, a[2], b[2])>>
WXor(a, b) == <<Op16(Xor4, a[1], b[1]), Op16(Xor4, a[2], b[2])>>
WNot(a) == <<65535 - a[1], 65535 - a[2]>>
\* wrapping_add
WAdd(a, b) ==
  LET lo == a[2] + b[2]
  IN <<(a[1] + b[1] + (lo \div 65536)) % 65536, lo % 65536>>
Rotl16(a, n) ==
  IF n = 0 THEN a
  ELSE <<((a[1] * 2^n) % 65536) + (a[2] \div 2^(16 - n)),
         ((a[2] * 2^n) % 65536) + (a[1] \div 2^(16 - n))>>
WRotl(a, n) == IF n >= 16 THEN Rotl16(<<a[2], a[1]>>, n - 16) ELSE Rotl16(a, n)
WRotr(a, n) == WRotl(a, 32 - n)
WShr(a, n) ==
  IF n >= 16 THEN <<0, a[1] \div 2^(n - 16)>>
  ELSE <<a[1] \div 2^n, ((a[1] % 2^n) * 2^(16 - n)) + (a[2] \div 2^n)>>
HexVal(c) == IndexIn(HexDigits, c) - 1
Hex16(s) ==
  HexVal(SubSeq(s, 1, 1)) * 4096 + HexVal(SubSeq(s, 2, 2)) * 256
    + HexVal(SubSeq(s, 3, 3)) * 16 + HexVal(SubSeq(s, 4, 4))
\* the word written as eight hex digits
W(s) == <<Hex16(SubSeq(s, 1, 4)), Hex16(SubSeq(s, 5, 8))>>
WordBE(m, i) == <<m[i] * 256 + m[i + 1], m[i + 2] * 256 + m[i + 3]>>
WordLE(m, i) == <<m[i + 3] * 256 + m[i + 2], m[i + 1] * 256 + m[i]>>
WBytesBE(a) == <<a[1] \div 256, a[1] % 256, a[2] \div 256, a[2] % 256>>
WBytesLE(a) == <<a[2] % 256, a[2] \div 256, a[1] % 256, a[1] \div 256>>

\* Merkle-Damgard padding: 0x80, zeros, the bit length in 8 bytes
Zeros(n) == [i \in 1..n |-> 0]
PadLen(n) == (119 - (n % 64)) % 64
LenBE(n) ==
  <<0, 0, 0, 0, (n * 8) \div 16777216, ((n * 8) \div 65536) % 256,
    ((n * 8) \div 256) % 256, (n * 8) % 256>>
LenLE(n) ==
  <<(n * 8) % 256, ((n * 8) \div 256) % 256, ((n * 8) \div 65536) % 256,
    (n * 8) \div 16777216, 0, 0, 0, 0>>
PadBE(m) == m \o <<128>> \o Zeros(PadLen(Len(m))) \o LenBE(Len(m))
PadLE(m) == m \o <<128>> \o Zeros(PadLen(Len(m))) \o LenLE(Len(m))

-----------------------------------------------------------------------------
(* crypto::sha1::Sha1                                                      *)

Sha1Init == <<W("67452301"), W("efcdab89"), W("98badcfe"), W("10325476"), W("c3d2e1f0")>>
Sha1K1 == W("5a827999")
Sha1K2 == W("6ed9eba1")
Sha1K3 == W("8f1bbcdc")
Sha1K4 == W("ca62c1d6")
Sha1K(t) ==
  IF t < 20 THEN Sha1K1 ELSE IF t < 40 THEN Sha1K2 ELSE IF t < 60 THEN Sha1K3 ELSE Sha1K4
Sha1F(t, b, c, d) ==
  IF t < 20 THEN WOr(WAnd(b, c), WAnd(WNot(b), d))
  ELSE IF t < 40 THEN WXor(WXor(b, c), d)
  ELSE IF t < 60 THEN WOr(WOr(WAnd(b, c), WAnd(b, d)), WAnd(c, d))
  ELSE WXor(WXor(b, c), d)
RECURSIVE Sha1Sched(_)
Sha1Sched(w) ==
  IF Len(w) >= 80 THEN w
  ELSE LET t == Len(w) + 1
       IN Sha1Sched(Append(w,
            WRotl(WXor(WXor(w[t - 3], w[t - 8]), WXor(w[t - 14], w[t - 16])), 1)))
\* s = <<a, b, c, d, e, t>>
RECURSIVE Sha1Rounds(_, _)
Sha1Rounds(s, w) ==
  IF s[6] = 80 THEN s
  ELSE LET t == s[6]
           tmp == WAdd(WAdd(WAdd(WAdd(WRotl(s[1], 5), Sha1F(t, s[2], s[3], s[4])),
                                 s[5]), Sha1K(t)), w[t + 1])
       IN Sha1Rounds(<<tmp, s[1], WRotl(s[2], 30), s[3], s[4], t + 1>>, w)
Sha1Block(h, m, off) ==
  LET w == Sha1Sched([i \in 1..16 |-> WordBE(m, off + 4 * (i - 1) + 1)])
      s == Sha1Rounds(h \o <<0>>, w)
  IN [i \in 1..5 |-> WAdd(h[i], s[i])]
RECURSIVE Sha1Blocks(_, _, _)
Sha1Blocks(h, m, off) ==
  IF off >= Len(m) \/ Len(h) # 5 THEN h ELSE Sha1Blocks(Sha1Block(h, m, off), m, off + 64)
Sha1(m) ==
  LET h == Sha1Blocks(Sha1Init, PadBE(m), 0)
  IN WBytesBE(h[1]) \o WBytesBE(h[2]) \o WBytesBE(h[3]) \o WBytesBE(h[4]) \o WBytesBE(h[5])

-----------------------------------------------------------------------------
(* crypto::md5::Md5                                                        *)

Md5Init == <<W("67452301"), W("efcdab89"), W("98badcfe"), W("10325476")>>
Md5S ==
  <<7, 12, 17, 22, 7, 12, 17, 22, 7, 12, 17, 22, 7, 12, 17, 22,
    5, 9, 14, 20, 5, 9, 14, 20, 5, 9, 14, 20, 5, 9, 14, 20,
    4, 11, 16, 23, 4, 11, 16, 23, 4, 11, 16, 23, 4, 11, 16, 23,
    6, 10, 15, 21, 6, 10, 15, 21, 6, 10, 15, 21, 6, 10, 15, 21>>
Md5K ==
  <<W("d76aa478"), W("e8c7b756"), W("242070db"), W("c1bdceee"),
    W("f57c0faf"), W("4787c62a"), W("a8304613"), W("fd469501"),
    W("698098d8"), W("8b44f7af"), W("ffff5bb1"), W("895cd7be"),
    W("6b901122"), W("fd987193"), W("a679438e"), W("49b40821"),
    W("f61e2562"), W("c040b340"), W("265e5a51"), W("e9b6c7aa"),
    W("d62f105d"), W("02441453"), W("d8a1e681"), W("e7d3fbc8"),
    W("21e1cde6"), W("c33707d6"), W("f4d50d87"), W("455a14ed"),
    W("a9e3e905"), W("fcefa3f8"), W("676f02d9"), W("8d2a4c8a"),
    W("fffa3942"), W("8771f681"), W("6d9d6122"), W("fde5380c"),
    W("a4beea44"), W("4bdecfa9"), W("f6bb4b60"), W("bebfbc70"),
    W("289b7ec6"), W("eaa127fa"), W("d4ef3085"), W("04881d05"),
    W("d9d4d039"), W("e6db99e5"), W("1fa27cf8"), W("c4ac5665"),
    W("f4292244"), W("432aff97"), W("ab9423a7"), W("fc93a039"),
    W("655b59c3"), W("8f0ccc92"), W("ffeff47d"), W("85845dd1"),
    W("6fa87e4f"), W("fe2ce6e0"), W("a3014314"), W("4e0811a1"),
    W("f7537e82"), W("bd3af235"), W("2ad7d2bb"), W("eb86d391")>>
Md5F(i, b, c, d) ==
  IF i < 16 THEN WOr(WAnd(b, c), WAnd(WNot(b), d))
  ELSE IF i < 32 THEN WOr(WAnd(d, b), WAnd(WNot(d), c))
  ELSE IF i < 48 THEN WXor(WXor(b, c), d)
  ELSE WXor(c, WOr(b, WNot(d)))
Md5G(i) ==
  IF i < 16 THEN i
  ELSE IF i < 32 THEN (5 * i + 1) % 16
  ELSE IF i < 48 THEN (3 * i + 5) % 16
  ELSE (7 * i) % 16
\* s = <<a, b, c, d, i>>
RECURSIVE Md5Rounds(_, _)
Md5Rounds(s, w) ==
  IF s[5] = 64 THEN s
  ELSE LET i == s[5]
           f == WAdd(WAdd(WAdd(Md5F(i, s[2], s[3], s[4]), s[1]), Md5K[i + 1]), w[Md5G(i) + 1])
       IN Md5Rounds(<<s[4], WAdd(s[2], WRotl(f, Md5S[i + 1])), s[2], s[3], i + 1>>, w)
Md5Block(h, m, off) ==
  LET w == [i \in 1..16 |-> WordLE(m, off + 4 * (i - 1) + 1)]
      s == Md5Rounds(h \o <<0>>, w)
  IN [i \in 1..4 |-> WAdd(h[i], s[i])]
RECURSIVE Md5Blocks(_, _, _)
Md5Blocks(h, m, off) ==
  IF off >= Len(m) \/ Len(h) # 4 THEN h ELSE Md5Blocks(Md5Block(h, m, off), m, off + 64)
Md5(m) ==
  LET h == Md5Blocks(Md5Init, PadLE(m), 0)
  IN WBytesLE(h[1]) \o WBytesLE(h[2]) \o WBytesLE(h[3]) \o WBytesLE(h[4])

-----------------------------------------------------------------------------
(* crypto::sha2::Sha256                                                    *)

Sha256K ==
  <<W("428a2f98"), W("71374491"), W("b5c0fbcf"), W("e9b5dba5"),
    W("3956c25b"), W("59f111f1"), W("923f82a4"), W("ab1c5ed5"),
    W("d807aa98"), W("12835b01"), W("243185be"), W("550c7dc3"),
    W("72be5d74"), W("80deb1fe"), W("9bdc06a7"), W("c19bf174"),
    W("e49b69c1"), W("efbe4786"), W("0fc19dc6"), W("240ca1cc"),
    W("2de92c6f"), W("4a7484aa"), W("5cb0a9dc"), W("76f988da"),
    W("983e5152"), W("a831c66d"), W("b00327c8"), W("bf597fc7"),
    W("c6e00bf3"), W("d5a79147"), W("06ca6351"), W("14292967"),
    W("27b70a85"), W("2e1b2138"), W("4d2c6dfc"), W("53380d13"),
    W("650a7354"), W("766a0abb"), W("81c2c92e"), W("92722c85"),
    W("a2bfe8a1"), W("a81a664b"), W("c24b8b70"), W("c76c51a3"),
    W("d192e819"), W("d6990624"), W("f40e3585"), W("106aa070"),
    W("19a4c116"), W("1e376c08"), W("2748774c"), W("34b0bcb5"),
    W("391c0cb3"), W("4ed8aa4a"), W("5b9cca4f"), W("682e6ff3"),
    W("748f82ee"), W("78a5636f"), W("84c87814"), W("8cc70208"),
    W("90befffa"), W("a4506ceb"), W("bef9a3f7"), W("c67178f2")>>
Sha256Init ==
  <<W("6a09e667"), W("bb67ae85"), W("3c6ef372"), W("a54ff53a"),
    W("510e527f"), W("9b05688c"), W("1f83d9ab"), W("5be0cd19")>>
Sha256Sig0(x) == WXor(WXor(WRotr(x, 7), WRotr(x, 18)), WShr(x, 3))
Sha256Sig1(x) == WXor(WXor(WRotr(x, 17), WRotr(x, 19)), WShr(x, 10))
Sha256Sum0(x) == WXor(WXor(WRotr(x, 2), WRotr(x, 13)), WRotr(x, 22))
Sha256Sum1(x) == WXor(WXor(WRotr(x, 6), WRotr(x, 11)), WRotr(x, 25))
Sha256Ch(x, y, z) == WXor(WAnd(x, y), WAnd(WNot(x), z))
Sha256Maj(x, y, z) == WXor(WXor(WAnd(x, y), WAnd(x, z)), WAnd(y, z))
RECURSIVE Sha256Sched(_)
Sha256Sched(w) ==
  IF Len(w) >= 64 THEN w
  ELSE LET t == Len(w) + 1
       IN Sha256Sched(Append(w,
            WAdd(WAdd(Sha256Sig1(w[t - 2]), w[t - 7]), WAdd(Sha256Sig0(w[t - 15]), w[t - 16]))))
\* s = <<a, b, c, d, e, f, g, h, t>>
RECURSIVE Sha256Rounds(_, _)
Sha256Rounds(s, w) ==
  IF s[9] = 64 THEN s
  ELSE LET t == s[9]
           t1 == WAdd(WAdd(WAdd(WAdd(s[8], Sha256Sum1(s[5])), Sha256Ch(s[5], s[6], s[7])),
                           Sha256K[t + 1]), w[t + 1])
           t2 == WAdd(Sha256Sum0(s[1]), Sha256Maj(s[1], s[2], s[3]))
       IN Sha256Rounds(<<WAdd(t1, t2), s[1], s[2], s[3], WAdd(s[4], t1), s[5], s[6], s[7],
                         t + 1>>, w)
Sha256Block(h, m, off) ==
  LET w == Sha256Sched([i \in 1..16 |-> WordBE(m, off + 4 * (i - 1) + 1)])
      s == Sha256Rounds(h \o <<0>>, w)
  IN [i \in 1..8 |-> WAdd(h[i], s[i])]
RECURSIVE Sha256Blocks(_, _, _)
Sha256Blocks(h, m, off) ==
  IF off >= Len(m) \/ Len(h) # 8 THEN h ELSE Sha256Blocks(Sha256Block(h, m, off), m, off + 64)
RECURSIVE WordsBytesBE(_)
WordsBytesBE(h) == IF Len(h) = 0 THEN <<>> ELSE WBytesBE(Head(h)) \o WordsBytesBE(Tail(h))
Sha256(m) == WordsBytesBE(Sha256Blocks(Sha256Init, PadBE(m), 0))

-----------------------------------------------------------------------------
(* crypto::hmac::Hmac                                                      *)

XorByte(a, b) == Xor4[a \div 16][b \div 16] * 16 + Xor4[a % 16][b % 16]
HmacKey(H(_), key) ==
  LET k0 == IF Len(key) > 64 THEN H(key) ELSE key
  IN k0 \o Zeros(64 - Len(k0))
Hmac(H(_), key, msg) ==
  LET k == HmacKey(H, key)
      ipad == [i \in 1..64 |-> XorByte(k[i], 54)]
      opad == [i \in 1..64 |-> XorByte(k[i], 92)]
  IN H(opad \o H(ipad \o msg))
HmacSha1Raw(key, msg) == Hmac(Sha1, key, msg)
HmacSha256Raw(key, msg) == Hmac(Sha256, key, msg)

-----------------------------------------------------------------------------
(* chrono: Utc::now().format(DATE_HEADER_FORMAT)                           *)

\* an instant is a number of seconds since 1970-01-01T00:00:00Z
Pad2(n) == IF n < 10 THEN "0" \o ToString(n) ELSE ToString(n)
Pad4(n) ==
  IF n < 10 THEN "000" \o ToString(n)
  ELSE IF n < 100 THEN "00" \o ToString(n)
  ELSE IF n < 1000 THEN "0" \o ToString(n)
  ELSE ToString(n)
\* civil date <<year, month, day>> of a day number (days since 1970-01-01)
CivilFromDays(days) ==
  LET z == days + 719468
      era == z \div 146097
      doe == z - era * 146097
      yoe == (doe - (doe \div 1460) + (doe \div 36524) - (doe \div 146096)) \div 365
      doy == doe - (365 * yoe + (yoe \div 4) - (yoe \div 100))
      mp == (5 * doy + 2) \div 153
      d == doy - ((153 * mp + 2) \div 5) + 1
      m == IF mp < 10 THEN mp + 3 ELSE mp - 9
      y == yoe + era * 400 + (IF m <= 2 THEN 1 ELSE 0)
  IN <<y, m, d>>
\* 1 = Monday .. 7 = Sunday; 1970-01-01 was a Thursday
IsoWeekday(days) == ((days + 3) % 7) + 1
\* %G: the year of the ISO 8601 week, i.e. the year of that week's Thursday
IsoWeekYear(days) == CivilFromDays(days - IsoWeekday(days) + 4)[1]
WeekdayNames == <<"Mon", "Tue", "Wed", "Thu", "Fri", "Sat", "Sun">>
MonthNames ==
  <<"Jan", "Feb", "Mar", "Apr", "May", "Jun", "Jul", "Aug", "Sep", "Oct", "Nov", "Dec">>
\* "%a, %d %h %G %T %Z" of a DateTime<Utc>, whose %Z is "UTC"
FormatDate(t) ==
  LET days == t \div 86400
      secs == t % 86400
      ymd == CivilFromDays(days)
  IN WeekdayNames[IsoWeekday(days)] \o ", " \o Pad2(ymd[3]) \o " " \o MonthNames[ymd[2]]
       \o " " \o Pad4(IsoWeekYear(days)) \o " "
       \o Pad2(secs \div 3600) \o ":" \o Pad2((secs \div 60) % 60) \o ":" \o Pad2(secs % 60)
       \o " " \o "UTC"
\* str::replace: every non-overlapping occurrence, left to right
RECURSIVE Replace(_, _, _)
Replace(s, from, to) ==
  IF Len(s) < Len(from) \/ Len(from) = 0 THEN s
  ELSE IF SubSeq(s, 1, Len(from)) = from
       THEN to \o Replace(SubSeq(s, Len(from) + 1, Len(s)), from, to)
       ELSE SubSeq(s, 1, 1) \o Replace(SubSeq(s, 2, Len(s)), from, to)
\* the Date header of rest::Client::call_url
DateHeader(t) == Replace(FormatDate(t), "UTC", "GMT")

-----------------------------------------------------------------------------
(* Option, Url, Request                                                    *)

None == <<>>
Some(v) == <<v>>
IsSome(o) == Len(o) = 1
Unwrap(o) == o[1]

\* Url::parse of an absolute http(s) URL without fragment: scheme, "://",
\* host, path, and the query after the first "?".  Err(ParseError) otherwise.
UrlSchemes == {"https", "http"}
UrlRest(u) == SubSeq(u, Find(u, ":") + 3, Len(u))
UrlParses(u) ==
  /\ Find(u, ":") > 1
  /\ SubSeq(u, 1, Find(u, ":") - 1) \in UrlSchemes
  /\ SubSeq(u, Find(u, ":"), Find(u, ":") + 2) = "://"
  /\ Len(UrlRest(u)) > 0
  /\ SubSeq(UrlRest(u), 1, 1) \notin {"/", "?"}
UrlAfterHost(u) ==
  LET r == UrlRest(u)
      slash == Find(r, "/")
      quest == Find(r, "?")
      cut == IF slash = 0 THEN quest ELSE IF quest = 0 THEN slash
             ELSE IF slash < quest THEN slash ELSE quest
  IN IF cut = 0 THEN "" ELSE SubSeq(r, cut, Len(r))
UrlOrigin(u) == SubSeq(u, 1, Len(u) - Len(UrlAfterHost(u)))
\* Url::path: "/" when the URL names no path
UrlPath(u) ==
  LET r == UrlAfterHost(u)
      quest == Find(r, "?")
      p == IF quest = 0 THEN r ELSE SubSeq(r, 1, quest - 1)
  IN IF p = "" THEN "/" ELSE p
\* Url::query
UrlQuery(u) ==
  LET r == UrlAfterHost(u)
      quest == Find(r, "?")
  IN IF quest = 0 THEN None ELSE Some(SubSeq(r, quest + 1, Len(r)))

\* ucare::encode_url: Ok(url) or Err(ParseUrl)
encode_url(base, path, params) ==
  LET u == IF IsSome(params) THEN base \o path \o "?" \o Unwrap(params) ELSE base \o path
  IN IF UrlParses(u) THEN [ok |-> TRUE, url |-> u] ELSE [ok |-> FALSE, url |-> u]

\* a HeaderMap is a function from (canonical) header names to values
CONTENT_TYPE == "Content-Type"
DATE == "Date"
ACCEPT == "Accept"
NoHeaders == [h \in {} |-> ""]
Insert(headers, name, value) ==
  [h \in DOMAIN headers \cup {name} |-> IF h = name THEN value ELSE headers[h]]
\* HeaderValue::from_str(s).is_ok(): every byte is a tab or a visible ASCII
\* character or a space (32..126)
HeaderValueFromStr(s) ==
  \A i \in 1..Len(s) :
    LET b == Ord(SubSeq(s, i, i)) IN b = 9 \/ (b >= 32 /\ b # 127)
\* reqwest::blocking::Request: method, url, headers, body (None or Some(bytes))
Request(method, url, headers, body) ==
  [method |-> method, url |-> url, headers |-> headers, body |-> body]

\* Body::as_bytes: Some for a body held in memory, None for a streamed one
Bytes_(s) == [kind |-> "bytes", bytes |-> s]
as_bytes(body) == IF body.kind = "bytes" THEN Some(body.bytes) ELSE None

\* str::contains
RECURSIVE ContainsFrom(_, _, _)
ContainsFrom(s, sub, i) ==
  IF i + Len(sub) - 1 > Len(s) THEN FALSE
  ELSE IF SubSeq(s, i, i + Len(sub) - 1) = sub THEN TRUE
  ELSE ContainsFrom(s, sub, i + 1)
Contains(s, sub) == ContainsFrom(s, sub, 1)

-----------------------------------------------------------------------------
(* serde_json: parsing a response body, and deserializing it into R.       *)
(* Documents are flat: null, a string, or an object whose values are       *)
(* scalars (string, number, true, false, null) or lists of strings,        *)
(* written without blanks.                                                 *)

JErr(msg) == [ok |-> FALSE, msg |-> msg]
JOk(doc) == [ok |-> TRUE, doc |-> doc]
Digits == "0123456789"
IsNumber(s) == Len(s) > 0 /\ \A i \in 1..Len(s) : SubSeq(s, i, i) \in Chars(Digits)
\* the elements of a list of strings: s is the text after "[" or after ","
RECURSIVE Elements(_, _)
Elements(s, acc) ==
  IF Len(s) = 0 THEN JErr("EOF while parsing a list")
  ELSE IF acc = <<>> /\ SubSeq(s, 1, 1) = "]"
       THEN (IF Len(s) = 1 THEN JOk([kind |-> "array", value |-> acc])
             ELSE JErr("trailing characters"))
  ELSE IF SubSeq(s, 1, 1) # "\"" THEN JErr("expected value")
  ELSE IF Find(Tail(s), "\"") = 0 THEN JErr("EOF while parsing a string")
  ELSE LET e == Find(Tail(s), "\"") + 1
           acc2 == Append(acc, SubSeq(s, 2, e - 1))
           r == SubSeq(s, e + 1, Len(s))
       IN IF Len(r) = 0 THEN JErr("EOF while parsing a list")
          ELSE IF SubSeq(r, 1, 1) = "]"
               THEN (IF Len(r) = 1 THEN JOk([kind |-> "array", value |-> acc2])
                     ELSE JErr("trailing characters"))
          ELSE IF SubSeq(r, 1, 1) = "," THEN Elements(Tail(r), acc2)
          ELSE JErr("expected comma or closing bracket")
\* a scalar token, or a list -> its document
Scalar(tok) ==
  IF tok = "null" THEN JOk([kind |-> "null"])
  ELSE IF tok \in {"true", "false"} THEN JOk([kind |-> "bool", value |-> tok])
  ELSE IF IsNumber(tok) THEN JOk([kind |-> "number", value |-> tok])
  ELSE IF Len(tok) >= 2 /\ SubSeq(tok, 1, 1) = "\"" /\ Find(Tail(tok), "\"") = Len(tok) - 1
       THEN JOk([kind |-> "string", value |-> SubSeq(tok, 2, Len(tok) - 1)])
  ELSE IF Len(tok) >= 1 /\ SubSeq(tok, 1, 1) = "\"" /\ Find(Tail(tok), "\"") = 0
       THEN JErr("EOF while parsing a string")
  ELSE IF Len(tok) >= 1 /\ SubSeq(tok, 1, 1) = "[" THEN Elements(Tail(tok), <<>>)
  ELSE JErr("expected value")
\* the end of the token that starts s: a string runs to its closing quote,
\* a list to its closing bracket, any other token to the next "," or "}"
TokenEnd(s) ==
  IF SubSeq(s, 1, 1) = "\""
  THEN (IF Find(Tail(s), "\"") = 0 THEN Len(s) ELSE Find(Tail(s), "\"") + 1)
  ELSE IF SubSeq(s, 1, 1) = "["
  THEN (IF Find(s, "]") = 0 THEN Len(s) ELSE Find(s, "]"))
  ELSE LET c == Find(s, ",")
           b == Find(s, "}")
           e == IF c = 0 THEN b ELSE IF b = 0 THEN c ELSE IF c < b THEN c ELSE b
       IN IF e = 0 THEN Len(s) ELSE e - 1
\* the members of an object: s is the text after "{" or after a ","
RECURSIVE Members(_, _, _)
Members(s, acc, first) ==
  IF Len(s) = 0 THEN JErr("EOF while parsing an object")
  ELSE IF first /\ SubSeq(s, 1, 1) = "}"
       THEN (IF Len(s) = 1 THEN JOk([kind |-> "object", fields |-> acc])
             ELSE JErr("trailing characters"))
  ELSE IF SubSeq(s, 1, 1) # "\"" THEN JErr("key must be a string")
  ELSE LET kend == TokenEnd(s)
           key == Scalar(SubSeq(s, 1, kend))
           r1 == SubSeq(s, kend + 1, Len(s))
       IN IF ~ key.ok THEN key
          ELSE IF Len(r1) = 0 THEN JErr("EOF while parsing an object")
          ELSE IF SubSeq(r1, 1, 1) # ":" THEN JErr("expected colon")
          ELSE IF Len(r1) = 1 THEN JErr("EOF while parsing a value")
          ELSE LET r2 == Tail(r1)
                   vend == TokenEnd(r2)
                   val == Scalar(SubSeq(r2, 1, vend))
                   r3 == SubSeq(r2, vend + 1, Len(r2))
                   acc2 == [k \in DOMAIN acc \cup {key.doc.value} |->
                              IF k = key.doc.value THEN val.doc ELSE acc[k]]
               IN IF ~ val.ok THEN val
                  ELSE IF Len(r3) = 0 THEN JErr("EOF while parsing an object")
                  ELSE IF SubSeq(r3, 1, 1) = "}"
                       THEN (IF Len(r3) = 1 THEN JOk([kind |-> "object", fields |-> acc2])
                             ELSE JErr("trailing characters"))
                  ELSE IF SubSeq(r3, 1, 1) = ","
                       THEN Members(Tail(r3), acc2, FALSE)
                  ELSE JErr("expected comma or closing brace")
\* serde_json::from_slice::<Value>
ParseJson(s) ==
  IF Len(s) = 0 THEN JErr("EOF while parsing a value")
  ELSE IF SubSeq(s, 1, 1) = "{" THEN Members(Tail(s), [k \in {} |-> 0], TRUE)
  ELSE Scalar(s)

\* The shape of a Deserialize type: a struct names its fields, each with the
\* kind of JSON value it takes and whether it is an Option; serde skips
\* unknown fields and reads an absent or null Option as None.
Field(kind, optional) == [kind |-> kind, optional |-> optional]
Struct(fields) == [shape |-> "struct", fields |-> fields]
\* from_value::<R>: Ok(value) or Err(message)
Deserialize(R, doc) ==
  IF R.shape = "unit"
  THEN (IF doc.kind = "null" THEN [ok |-> TRUE, value |-> "()"]
        ELSE JErr("invalid type, expected unit"))
  ELSE IF R.shape = "string"
  THEN (IF doc.kind = "string" THEN [ok |-> TRUE, value |-> doc.value]
        ELSE JErr("invalid type, expected a string"))
  ELSE IF R.shape = "map"
  THEN (IF doc.kind # "object" THEN JErr("invalid type, expected a map")
        ELSE IF \E k \in DOMAIN doc.fields : doc.fields[k].kind # "string"
        THEN JErr("invalid type, expected a string")
        ELSE [ok |-> TRUE, value |-> [k \in DOMAIN doc.fields |-> doc.fields[k].value]])
  ELSE IF R.shape = "seq"
  THEN (IF doc.kind # "array" THEN JErr("invalid type, expected a sequence")
        ELSE IF doc.value # <<>> THEN JErr("invalid type, expected struct")
        ELSE [ok |-> TRUE, value |-> <<>>])
  ELSE IF doc.kind # "object" THEN JErr("invalid type, expected struct")
  ELSE LET present(f) == f \in DOMAIN doc.fields /\ doc.fields[f].kind # "null"
           missing == {f \in DOMAIN R.fields : ~ R.fields[f].optional /\ f \notin DOMAIN doc.fields}
           badkind == {f \in DOMAIN R.fields :
                         /\ f \in DOMAIN doc.fields
                         /\ doc.fields[f].kind # R.fields[f].kind
                         /\ ~ (R.fields[f].optional /\ doc.fields[f].kind = "null")}
       IN IF badkind # {} THEN JErr("invalid type")
          ELSE IF missing # {} THEN JErr("missing field")
          ELSE [ok |-> TRUE,
                value |-> [f \in DOMAIN R.fields |->
                             IF present(f) THEN Some(doc.fields[f].value) ELSE None]]
\* from_value::<R> of what the parser returned
from_value(R, p) == IF p.ok THEN Deserialize(R, p.doc) ELSE p
\* serde_json::from_slice::<R>
FromJson(R, s) == from_value(R, ParseJson(s))

\* ucare::Error as a Deserialize type: detail: String, value skipped
ErrorType == Struct([detail |-> Field("string", FALSE)])
\* file::List: every field is an Option (results left out: a list)
ListType ==
  Struct([next |-> Field("string", TRUE), previous |-> Field("string", TRUE),
          total |-> Field("number", TRUE), per_page |-> Field("number", TRUE)])
\* project::Info (collaborators left out: a list)
ProjectInfoType ==
  Struct([name |-> Field("string", FALSE), pub_key |-> Field("string", FALSE)])
StringType == [shape |-> "string"]
UnitType == [shape |-> "unit"]
\* HashMap<String, String> of upload::Service::file
MapType == [shape |-> "map"]
\* upload::FileInfo: its two identifiers and its size
UploadFileInfoType ==
  Struct([uuid |-> Field("string", FALSE), file_id |-> Field("string", FALSE),
          size |-> Field("number", FALSE)])
\* upload::MultipartData
MultipartDataType ==
  Struct([parts |-> Field("array", FALSE), uuid |-> Field("string", FALSE)])
\* R::default() of the upload client's response types
Default(R) ==
  IF R.shape = "unit" THEN "()"
  ELSE IF R.shape = "string" THEN ""
  ELSE IF R.shape = "map" THEN [k \in {} |-> ""]
  ELSE [f \in DOMAIN R.fields |->
          IF R.fields[f].optional THEN None
          ELSE IF R.fields[f].kind = "array" THEN Some(<<>>)
          ELSE IF R.fields[f].kind = "number" THEN Some("0")
          ELSE Some("")]

\* str::parse::<i32>: an optional sign, then decimal digits, within i32
RECURSIVE StripZeros(_)
StripZeros(s) == IF Len(s) > 1 /\ SubSeq(s, 1, 1) = "0" THEN StripZeros(Tail(s)) ELSE s
RECURSIVE DigitsValue(_)
DigitsValue(s) ==
  IF Len(s) = 0 THEN 0
  ELSE 10 * DigitsValue(SubSeq(s, 1, Len(s) - 1)) + HexVal(SubSeq(s, Len(s), Len(s)))
ParseI32(s) ==
  LET neg == Len(s) > 0 /\ SubSeq(s, 1, 1) = "-"
      signed == Len(s) > 0 /\ SubSeq(s, 1, 1) \in {"-", "+"}
      ds == StripZeros(IF signed THEN Tail(s) ELSE s)
      last == HexVal(SubSeq(ds, Len(ds), Len(ds)))
      front == DigitsValue(SubSeq(ds, 1, Len(ds) - 1))
      fits == \/ Len(ds) < 10
              \/ /\ Len(ds) = 10
                 /\ \/ front < 214748364
                    \/ front = 214748364 /\ last <= (IF neg THEN 8 ELSE 7)
  IN IF ~ IsNumber(ds) THEN [ok |-> FALSE]
     ELSE IF ~ fits THEN [ok |-> FALSE]
     ELSE IF neg /\ Len(ds) = 10 /\ front = 214748364 /\ last = 8
          THEN [ok |-> TRUE, value |-> (0 - 2147483647) - 1]
     ELSE [ok |-> TRUE, value |-> IF neg THEN 0 - DigitsValue(ds) ELSE DigitsValue(ds)]

-----------------------------------------------------------------------------
(* Inputs: credentials, instants of the clock, calls of the services       *)

ApiCreds(secret_key, pub_key) == [secret_key |-> secret_key, pub_key |-> pub_key]
ValidCreds == {ApiCreds("demoprivatekey", "testpk")}
\* credentials Client::new accepts although no header value can hold them
OddCreds == {ApiCreds("demo\nprivatekey", "testpk")}
AcceptedCreds == ValidCreds \cup OddCreds
EmptyCreds == {ApiCreds("", "testpk"), ApiCreds("demoprivatekey", "")}
\* 2016-02-08T03:56:36Z, 2018-11-05T13:14:41Z
Instants == {1454903796, 1541423681}

\* arguments of rest::Client::call as the services pass them:
\* file list, project info, webhook delete
RestCalls ==
  {[method |-> "GET", path |-> "/files/", query |-> Some("limit=1&stored=true"),
    data |-> None, R |-> ListType],
   [method |-> "GET", path |-> "/project/", query |-> None, data |-> None,
    R |-> ProjectInfoType],
   [method |-> "DELETE", path |-> "/webhooks/unsubscribe/", query |-> None,
    data |-> Some(Bytes_("{\"target_url\":\"https://example.com/hook\"}")),
    R |-> StringType]}
\* the `next` URLs handed to get_page: one absolute, one that does not parse
PageUrls == {"https://api.uploadcare.com/files/?limit=1&offset=1", "files/?offset=1"}

\* arguments of the upload services
FileIds == {"d6d34fa9"}
PartUrls == {"https://uploadcare.s3.amazonaws.com/d6d34fa9/part.1?uploadId=Z", "part.2"}
PartData == {"chunk"}
Boundaries == {"b1"}

\* what the server may answer
Statuses == {200, 400, 401, 403, 404, 406, 413, 429, 500}
ResponseBodies ==
  {"", "Not found.", "{\"detail\":\"Not found.\"}",
   "{\"name\":\"demo\",\"pub_key\":\"demopublickey\"}",
   "{\"uuid\":\"d6d34fa9\",\"file_id\":\"d6d34fa9\",\"size\":10905778}", "\"ok\""}
RETRY_AFTER == "Retry-After"
RetryAfterValues == {"30", "Wed, 21 Oct 2015 07:28:00 GMT"}
Response(status, headers, body) == [status |-> status, headers |-> headers, body |-> body]
Responses ==
  {Response(s, NoHeaders, b) : s \in Statuses, b \in ResponseBodies}
    \cup {Response(429, Insert(NoHeaders, RETRY_AFTER, v), "") : v \in RetryAfterValues}

-----------------------------------------------------------------------------
(* ucare/error.rs                                                          *)

Ok(v) == [tag |-> "Ok", value |-> v]
ErrValue(variant, arg) == [variant |-> variant, arg |-> arg]
TooManyRequests(retry_after) == [variant |-> "TooManyRequests", retry_after |-> retry_after]
\* Error::with_value and the From impls: the value is what callers match on
Err(value) == [tag |-> "Err", err |-> value]
\* a panic unwinding out of the call, and the expression that panicked
Panic(at) == [tag |-> "Panic", at |-> at]
NoResult == [tag |-> "None"]
\* reqwest::Error and its Display
Reqwest(kind, msg) == ErrValue("Reqwest", kind \o ": " \o msg)
DecodeError(msg) == Reqwest("error decoding response body", msg)
SendError == Reqwest("error sending request", "connection closed")

-----------------------------------------------------------------------------
(* ucare/rest/mod.rs: requests                                             *)

API_URL == "https://api.uploadcare.com"
USER_AGENT_PREFIX == "UploadcareRust"
CLIENT_VERSION == "0.1.0"
ApiVersions == {"v0.5", "v0.6"}
RestConfig(sign_based_auth, api_version) ==
  [sign_based_auth |-> sign_based_auth, api_version |-> api_version]
RestConfigs == {RestConfig(s, v) : s \in BOOLEAN, v \in ApiVersions}

\* call_url up to req_builder.build(): Date, Content-Type, the body if any
rest_build(method, url, data, t) ==
  Request(method, url,
          Insert(Insert(NoHeaders, DATE, DateHeader(t)), CONTENT_TYPE, "application/json"),
          data)

-----------------------------------------------------------------------------
(* ucare/rest/auth.rs                                                      *)

AUTH_HEADER_KEY == "Authorization"
SIMPLE_AUTH_SCHEME == "Uploadcare.Simple"
SIGN_BASED_AUTH_SCHEME == "Uploadcare"

\* tests::setup_req, and the request test_sign_based signs
setup_req == Request("GET", "http://testurl.com/files/?limit=1&stored=true", NoHeaders, None)
TestSignReq ==
  [setup_req EXCEPT !.headers =
     Insert(Insert(NoHeaders, DATE, DateHeader(1541423681)), CONTENT_TYPE, "application/json")]
\* the requests call_url builds for the calls above
BuiltRequests ==
  {rest_build(c.method, encode_url(API_URL, c.path, c.query).url, c.data, t) :
     c \in RestCalls, t \in Instants}
    \cup {rest_build("GET", u, None, t) : u \in {v \in PageUrls : UrlParses(v)}, t \in Instants}

\* Digest::input(data); Digest::result_str(): the lowercase hex digest
result_str(H(_), data) == HexStr(H(Bytes(data)))
\* Md5::new(); input(body); result_str().  The digests of the bodies the
\* calls above send are tabulated; Md5TableIsMd5 holds the table to Md5.
Md5Table ==
  ("" :> "d41d8cd98f00b204e9800998ecf8427e")
  @@  ("{\"target_url\":\"https://example.com/hook\"}" :> "eecf9e3fb07eb8d9a2fda411623ba4b7")
Md5TableIsMd5 == \A s \in DOMAIN Md5Table : Md5Table[s] = result_str(Md5, s)
md5_result_str(data) == IF data \in DOMAIN Md5Table THEN Md5Table[data] ELSE "untabulated"

\* the closure returned by auth::simple(creds), applied to req
simple(creds, req) ==
  LET auth == SIMPLE_AUTH_SCHEME \o " " \o creds.pub_key \o ":" \o creds.secret_key
  IN [req EXCEPT !.headers = Insert(req.headers, AUTH_HEADER_KEY, auth)]
\* auth.parse().unwrap() panics when auth is no header value
simple_panics(creds, req) ==
  ~ HeaderValueFromStr(SIMPLE_AUTH_SCHEME \o " " \o creds.pub_key \o ":" \o creds.secret_key)

\* body_data: the bytes of a body held in memory, none otherwise
body_data(req) ==
  IF IsSome(req.body) /\ IsSome(as_bytes(Unwrap(req.body)))
  THEN Unwrap(as_bytes(Unwrap(req.body)))
  ELSE ""
\* path: parsed_url.path(), then "?" and the query if there is one
path_and_query(url) ==
  IF IsSome(UrlQuery(url)) THEN UrlPath(url) \o "?" \o Unwrap(UrlQuery(url)) ELSE UrlPath(url)
\* a sign string with the Date before the Content-Type
sign_data_date_first(req) ==
  req.method \o "\n" \o md5_result_str(body_data(req)) \o "\n" \o req.headers[DATE]
    \o "\n" \o req.headers[CONTENT_TYPE] \o "\n" \o path_and_query(req.url)
\* the string sign_based signs
sign_data(req) ==
  req.method \o "\n" \o md5_result_str(body_data(req)) \o "\n" \o req.headers[CONTENT_TYPE]
    \o "\n" \o req.headers[DATE] \o "\n" \o path_and_query(req.url)
\* headers()[CONTENT_TYPE] and headers()[DATE] panic when the header is
\* absent; auth.parse().unwrap() panics when auth is no header value (the
\* signature is hexadecimal: the public key decides)
sign_based_panics(creds, req) ==
  \/ ~ ({CONTENT_TYPE, DATE} \subseteq DOMAIN req.headers)
  \/ ~ HeaderValueFromStr(SIGN_BASED_AUTH_SCHEME \o " " \o creds.pub_key \o ":")

\* Hmac::new(Sha1::new(), key); input(data); result().code(), each byte
\* formatted {:02x}.  The signatures of the requests call_url builds for the
\* calls above are tabulated; HmacSha1TableIsHmacSha1 holds the table to
\* HmacSha1Raw.
HmacSha1Table ==
  (<<"demoprivatekey",
     "GET\nd41d8cd98f00b204e9800998ecf8427e\napplication/json\nMon, 08 Feb 2016 03:56:36 GMT\n/files/?limit=1&stored=true">>
     :> "12d56cf55796f471488991f4bfd9bb27bf08f38f")
  @@  (<<"demoprivatekey",
     "GET\nd41d8cd98f00b204e9800998ecf8427e\napplication/json\nMon, 08 Feb 2016 03:56:36 GMT\n/project/">>
     :> "00da329591e2243e3416333c9f6679529df04009")
  @@  (<<"demoprivatekey",
     "DELETE\neecf9e3fb07eb8d9a2fda411623ba4b7\napplication/json\nMon, 08 Feb 2016 03:56:36 GMT\n/webhooks/unsubscribe/">>
     :> "2bf80016f9c06a2a68dcae00b6f9651cd603374c")
  @@  (<<"demoprivatekey",
     "GET\nd41d8cd98f00b204e9800998ecf8427e\napplication/json\nMon, 08 Feb 2016 03:56:36 GMT\n/files/?limit=1&offset=1">>
     :> "50b55fffc01d8dfadcd903447108fdfd83523198")
  @@  (<<"demoprivatekey",
     "GET\nd41d8cd98f00b204e9800998ecf8427e\napplication/json\nMon, 05 Nov 2018 13:14:41 GMT\n/files/?limit=1&stored=true">>
     :> "3cbc4d2cf91f80c1ba162b926f8a975e8bec7995")
  @@  (<<"demoprivatekey",
     "GET\nd41d8cd98f00b204e9800998ecf8427e\napplication/json\nMon, 05 Nov 2018 13:14:41 GMT\n/project/">>
     :> "0af271086b71e1af198ed4f916af7b61624dc465")
  @@  (<<"demoprivatekey",
     "DELETE\neecf9e3fb07eb8d9a2fda411623ba4b7\napplication/json\nMon, 05 Nov 2018 13:14:41 GMT\n/webhooks/unsubscribe/">>
     :> "9daf049fa8d8f78bc5efe2c479e54b143e1fc610")
  @@  (<<"demoprivatekey",
     "GET\nd41d8cd98f00b204e9800998ecf8427e\napplication/json\nMon, 05 Nov 2018 13:14:41 GMT\n/files/?limit=1&offset=1">>
     :> "edd4e8aced2a9ad14116812fa31acbb199985215")
  @@  (<<"demo\nprivatekey",
     "GET\nd41d8cd98f00b204e9800998ecf8427e\napplication/json\nMon, 08 Feb 2016 03:56:36 GMT\n/files/?limit=1&stored=true">>
     :> "41fd536452e4c4226e12f5014e3db0ba22f75e7a")
  @@  (<<"demo\nprivatekey",
     "GET\nd41d8cd98f00b204e9800998ecf8427e\napplication/json\nMon, 08 Feb 2016 03:56:36 GMT\n/project/">>
     :> "4e1954ff8ca3655ff14e840f38d0239d9657c0ec")
  @@  (<<"demo\nprivatekey",
     "DELETE\neecf9e3fb07eb8d9a2fda411623ba4b7\napplication/json\nMon, 08 Feb 2016 03:56:36 GMT\n/webhooks/unsubscribe/">>
     :> "64ffba30cceed1bb3a59932ca00238551bd7c0f7")
  @@  (<<"demo\nprivatekey",
     "GET\nd41d8cd98f00b204e9800998ecf8427e\napplication/json\nMon, 08 Feb 2016 03:56:36 GMT\n/files/?limit=1&offset=1">>
     :> "f00e9744165dd3d23cb02881773bfaa0c2411182")
  @@  (<<"demo\nprivatekey",
     "GET\nd41d8cd98f00b204e9800998ecf8427e\napplication/json\nMon, 05 Nov 2018 13:14:41 GMT\n/files/?limit=1&stored=true">>
     :> "ac4bf8d79d0d1dc123c5de1bf799438f3c7bc0d8")
  @@  (<<"demo\nprivatekey",
     "GET\nd41d8cd98f00b204e9800998ecf8427e\napplication/json\nMon, 05 Nov 2018 13:14:41 GMT\n/project/">>
     :> "15ed8a8af8a3f25a9022c4c734e41878bb533ab3")
  @@  (<<"demo\nprivatekey",
     "DELETE\neecf9e3fb07eb8d9a2fda411623ba4b7\napplication/json\nMon, 05 Nov 2018 13:14:41 GMT\n/webhooks/unsubscribe/">>
     :> "a1ebdbef6c1ddff4aa678437c232dc94d5e73fb4")
  @@  (<<"demo\nprivatekey",
     "GET\nd41d8cd98f00b204e9800998ecf8427e\napplication/json\nMon, 05 Nov 2018 13:14:41 GMT\n/files/?limit=1&offset=1">>
     :> "e23a8912f755a5c1940e16ac7bcceac3b2d983ef")
HmacSha1TableIsHmacSha1 ==
  \A p \in DOMAIN HmacSha1Table :
    HmacSha1Table[p] = HexStr(HmacSha1Raw(Bytes(p[1]), Bytes(p[2])))
hmac_sha1_hex(key, data) ==
  IF <<key, data>> \in DOMAIN HmacSha1Table THEN HmacSha1Table[<<key, data>>]
  ELSE "untabulated"

\* a closure that signs the date of the clock, not the request's Date header
sign_based_clock(creds, req) ==
  LET stamped == [req EXCEPT !.headers = Insert(req.headers, DATE, DateHeader(now))]
      signature == hmac_sha1_hex(creds.secret_key, sign_data(stamped))
      auth == SIGN_BASED_AUTH_SCHEME \o " " \o creds.pub_key \o ":" \o signature
  IN [req EXCEPT !.headers = Insert(req.headers, AUTH_HEADER_KEY, auth)]
\* the closure returned by auth::sign_based(creds), applied to req
sign_based(creds, req) ==
  LET signature == hmac_sha1_hex(creds.secret_key, sign_data(req))
      auth == SIGN_BASED_AUTH_SCHEME \o " " \o creds.pub_key \o ":" \o signature
  IN [req EXCEPT !.headers = Insert(req.headers, AUTH_HEADER_KEY, auth)]

-----------------------------------------------------------------------------
(* ucare/upload/auth.rs                                                    *)

SIGNED_UPLOAD_TTL == 60

\* Hmac::new(Sha256::new(), key); input(expire.to_string()); result().code(),
\* each byte formatted {:02x}.  The signatures of the expire times met here
\* are tabulated; HmacSha256TableIsHmacSha256 holds the table to HmacSha256Raw.
HmacSha256Table ==
  (<<"demoprivatekey", "1454903856">>
     :> "c475ee1fbf9824644d707d695509b8e7d7d0764e8e157be6f557cf43880a14f0")
  @@  (<<"demoprivatekey", "1541423741">>
     :> "e4a5fb8cd7bf2482d2218c94f5fd6b75b266a42c7c7f243435d37906d56c6c1c")
  @@  (<<"demo\nprivatekey", "1454903856">>
     :> "b130b89b6274832de594611cc274ef5d737a12064de7e931be4aa49becfbb29e")
  @@  (<<"demo\nprivatekey", "1541423741">>
     :> "b49f6ddffc1dab22ca1d12296f4371b65516fd7ab4e6c9ad21996fff8e223270")
  @@  (<<"project_secret_key", "1454903856">>
     :> "d39a461d41f607338abffee5f31da4d4e46535651c87346e76906bf75c064d47")
  @@  (<<"project_secret_key", "1541423741">>
     :> "acee3f1b192b3b5f5bd861b33f6d02966d96afe0268d25ef11404fd87b1cf79f")
HmacSha256TableIsHmacSha256 ==
  \A p \in DOMAIN HmacSha256Table :
    HmacSha256Table[p] = HexStr(HmacSha256Raw(Bytes(p[1]), Bytes(p[2])))
get_signature(secret_key, expire) ==
  IF <<secret_key, ToString(expire)>> \in DOMAIN HmacSha256Table
  THEN HmacSha256Table[<<secret_key, ToString(expire)>>]
  ELSE "untabulated"
\* Fields: pub_key, signature, expire
Fields(pub_key, signature, expire) ==
  [pub_key |-> pub_key, signature |-> signature, expire |-> expire]
\* the closure returned by upload auth::simple(creds)
upload_simple(creds) == Fields(creds.pub_key, None, None)
\* a closure that signs the clock and not the expire time it sends
upload_sign_based_signs_now(creds, t) ==
  Fields(creds.pub_key, Some(get_signature(creds.secret_key, t)),
         Some(t + SIGNED_UPLOAD_TTL))
\* the closure returned by upload auth::sign_based(creds); it reads
\* SystemTime::now(): t is the clock when it is called
upload_sign_based(creds, t) ==
  LET exp == t + SIGNED_UPLOAD_TTL
  IN Fields(creds.pub_key, Some(get_signature(creds.secret_key, exp)), Some(exp))

-----------------------------------------------------------------------------
(* ucare/rest/mod.rs: Client                                               *)

\* Client::new: Err(String) on empty credentials, else the client: the auth
\* closure it boxed (with the credentials it captured) and the http client's
\* default headers
rest_new(config, creds) ==
  IF creds.secret_key = "" \/ creds.pub_key = ""
  THEN [tag |-> "Err", err |-> "Uploadcare: invalid api credentials provided"]
  ELSE IF ~ HeaderValueFromStr(USER_AGENT_PREFIX \o "/" \o CLIENT_VERSION \o "/" \o creds.pub_key)
  THEN Panic("HeaderValue::from_str")
  ELSE Ok([set_auth_header |-> IF config.sign_based_auth THEN "sign_based" ELSE "simple",
           creds |-> creds,
           default_headers |->
             Insert(Insert(NoHeaders, ACCEPT,
                           "application/vnd.uploadcare-" \o config.api_version \o "+json"),
                    "X-UC-User-Agent",
                    USER_AGENT_PREFIX \o "/" \o CLIENT_VERSION \o "/" \o creds.pub_key)])

\* a client whose closure is the simple one whatever the config asked for
set_auth_header_simple(client, r) == simple(client.creds, r)
\* (*self.set_auth_header)(&mut req)
set_auth_header(client, r) ==
  IF client.set_auth_header = "sign_based" THEN sign_based(client.creds, r)
  ELSE simple(client.creds, r)

\* the http client adds its default headers to those the request lacks
with_default_headers(client, r) ==
  [r EXCEPT !.headers =
     [h \in DOMAIN r.headers \cup DOMAIN client.default_headers |->
        IF h \in DOMAIN r.headers THEN r.headers[h] ELSE client.default_headers[h]]]

set_auth_header_panics(client, r) ==
  IF client.set_auth_header = "sign_based" THEN sign_based_panics(client.creds, r)
  ELSE simple_panics(client.creds, r)

\* a call_url that attaches the body after the auth closure has run
rest_request_body_after_auth(client, method, url, data, t) ==
  with_default_headers(client,
    [set_auth_header(client, rest_build(method, url, None, t)) EXCEPT !.body = data])
\* call_url from the request builder to client.execute(req)
rest_request(client, method, url, data, t) ==
  with_default_headers(client, set_auth_header(client, rest_build(method, url, data, t)))

\* Err(ErrValue::variant(res.json::<Error>()?.detail()))
detail_err(variant, error) ==
  IF error.ok THEN Err(ErrValue(variant, Unwrap(error.value.detail)))
  ELSE Err(DecodeError(error.msg))
\* res.headers()[RETRY_AFTER].to_str().unwrap().parse::<i32>().unwrap()
retry_after_err(headers) ==
  IF RETRY_AFTER \notin DOMAIN headers THEN Panic("headers()[RETRY_AFTER]")
  ELSE IF ~ ParseI32(headers[RETRY_AFTER]).ok THEN Panic("parse::<i32>().unwrap()")
  ELSE Err(TooManyRequests(ParseI32(headers[RETRY_AFTER]).value))
\* Ok(res.json()?)
json_ok(data) == IF data.ok THEN Ok(data.value) ELSE Err(DecodeError(data.msg))
\* call_url: the match on res.status()
rest_result(res, R) ==
  IF res.status = 400 THEN detail_err("BadRequest", FromJson(ErrorType, res.body))
  ELSE IF res.status = 401 THEN detail_err("Unauthorized", FromJson(ErrorType, res.body))
  ELSE IF res.status = 406 THEN detail_err("NotAcceptable", FromJson(ErrorType, res.body))
  ELSE IF res.status = 429 THEN retry_after_err(res.headers)
  ELSE json_ok(FromJson(R, res.body))

-----------------------------------------------------------------------------
(* ucare/upload/mod.rs: Client                                             *)

UPLOAD_API_URL == "https://upload.uploadcare.com"
UploadConfigs == {[sign_based_upload |-> s] : s \in BOOLEAN}

\* Client::new
upload_new(config, creds) ==
  IF creds.secret_key = "" \/ creds.pub_key = ""
  THEN [tag |-> "Err", err |-> "Uploadcare: invalid api credentials provided"]
  ELSE Ok([auth_fields |-> IF config.sign_based_upload THEN "sign_based" ELSE "simple",
           creds |-> creds])

\* (*self.client.auth_fields)()
auth_fields(client, t) ==
  IF client.auth_fields = "sign_based" THEN upload_sign_based(client.creds, t)
  ELSE upload_simple(client.creds)

\* Payload::Form(form): reqwest draws the boundary; Payload::Raw(data)
Form(fields, boundary) == [kind |-> "form", fields |-> fields, boundary |-> boundary]
Text(form, name, value) == [form EXCEPT !.fields = Append(form.fields, <<name, value>>)]
Raw(data) == [kind |-> "raw", data |-> data]

\* an add_signature_expire that sends the signature without its expire
add_signature_only(fields, form) ==
  LET f == Text(Text(form, "UPLOADCARE_PUB_KEY", fields.pub_key), "pub_key", fields.pub_key)
  IN IF ~ IsSome(fields.signature) THEN f
     ELSE Text(f, "signature", Unwrap(fields.signature))
\* upload.rs: add_signature_expire
add_signature_expire(fields, form) ==
  LET f == Text(Text(form, "UPLOADCARE_PUB_KEY", fields.pub_key), "pub_key", fields.pub_key)
  IN IF ~ IsSome(fields.signature) THEN f
     ELSE Text(Text(f, "signature", Unwrap(fields.signature)),
               "expire", ToString(Unwrap(fields.expire)))

\* call_url from the request builder to client.execute(req)
upload_request(method, url, data) ==
  IF ~ IsSome(data) THEN Request(method, url, NoHeaders, None)
  ELSE IF Unwrap(data).kind = "form"
  THEN Request(method, url,
               Insert(NoHeaders, CONTENT_TYPE,
                      "multipart/form-data; boundary=" \o Unwrap(data).boundary),
               data)
  ELSE Request(method, url, Insert(NoHeaders, CONTENT_TYPE, "application/octet-stream"),
               Some(Bytes_(Unwrap(data).data)))

\* the arm of res.json(): Ok(data), Ok(R::default()) when the error's text
\* contains "EOF", Err(Error::from(err)) otherwise
json_or_default(R, data) ==
  IF data.ok THEN Ok(data.value)
  ELSE IF Contains(DecodeError(data.msg).arg, "EOF") THEN Ok(Default(R))
  ELSE Err(DecodeError(data.msg))
\* call_url: the match on res.status()
upload_result(res, R) ==
  IF res.status = 400 THEN Err(ErrValue("BadRequest", res.body))
  ELSE IF res.status = 403 THEN Err(ErrValue("Forbidden", res.body))
  ELSE IF res.status = 404 THEN Err(ErrValue("NotFound", res.body))
  ELSE IF res.status = 413 THEN Err(ErrValue("PayloadTooLarge", res.body))
  ELSE IF res.status = 429 THEN Err(TooManyRequests(30))
  ELSE json_or_default(R, FromJson(R, res.body))
-----------------------------------------------------------------------------
(* Actions: the clients                                                    *)

Idle == pc = "idle"

\* RestClient::new(config, creds)
NewRest(config, creds) ==
  /\ Idle
  /\ restClient = None
  /\ LET r == rest_new(config, creds)
     IN restClient' = IF r.tag = "Ok" THEN Some(r.value) ELSE None
  /\ UNCHANGED <<uploadClient, now, pc, who, sent, expect, nsent, resp, result>>
  /\ UNCHANGED <<authVars, chunkVars, laterVars>>

\* UploadClient::new(config, creds)
NewUpload(config, creds) ==
  /\ Idle
  /\ uploadClient = None
  /\ LET r == upload_new(config, creds)
     IN uploadClient' = IF r.tag = "Ok" THEN Some(r.value) ELSE None
  /\ UNCHANGED <<restClient, now, pc, who, sent, expect, nsent, resp, result>>
  /\ UNCHANGED <<authVars, chunkVars, laterVars>>

\* time passes
Tick ==
  /\ \E t \in Instants : t > now /\ now' = t
  /\ UNCHANGED <<restClient, uploadClient, pc, who, sent, expect, nsent, resp, result>>
  /\ UNCHANGED <<authVars, chunkVars, laterVars>>

\* a call returns Err before any request exists
Fails(client, R, err) ==
  /\ who' = client
  /\ expect' = R
  /\ sent' = None
  /\ nsent' = 0
  /\ resp' = None
  /\ result' = Err(err)
  /\ pc' = "idle"

\* client.execute(req): the request goes out and the call blocks
Executes(client, R, r) ==
  /\ who' = client
  /\ expect' = R
  /\ sent' = Some(r)
  /\ nsent' = 1
  /\ resp' = None
  /\ result' = NoResult
  /\ pc' = "sent"

\* a call panics before any request is executed
Panics(client, R, at) ==
  /\ who' = client
  /\ expect' = R
  /\ sent' = None
  /\ nsent' = 0
  /\ resp' = None
  /\ result' = Panic(at)
  /\ pc' = "idle"

\* rest call_url up to client.execute(req)
rest_call_url(method, url, data, R) ==
  IF set_auth_header_panics(Unwrap(restClient), rest_build(method, url, data, now))
  THEN Panics("rest", R, "set_auth_header")
  ELSE Executes("rest", R, rest_request(Unwrap(restClient), method, url, data, now))

ParseError == ErrValue("ParseUrl", "relative URL without a base")

\* rest::Client::call, entered by a service, up to client.execute(req)
RestCall(c) ==
  /\ Idle
  /\ IsSome(restClient)
  /\ LET u == encode_url(API_URL, c.path, c.query)
     IN IF ~ u.ok THEN Fails("rest", c.R, ParseError)
        ELSE rest_call_url(c.method, u.url, c.data, c.R)
  /\ UNCHANGED <<restClient, uploadClient, now>>
  /\ UNCHANGED <<authVars, chunkVars, laterVars>>

\* file::Service::get_page(url): Url::parse(url)?, then call_url
FileGetPage(url) ==
  /\ Idle
  /\ IsSome(restClient)
  /\ IF ~ UrlParses(url) THEN Fails("rest", ListType, ParseError)
     ELSE rest_call_url("GET", url, None, ListType)
  /\ UNCHANGED <<restClient, uploadClient, now>>
  /\ UNCHANGED <<authVars, chunkVars, laterVars>>

\* upload::Client::call
upload_call(method, path, query, data, R) ==
  LET u == encode_url(UPLOAD_API_URL, path, query)
  IN IF ~ u.ok THEN Fails("upload", R, ParseError)
     ELSE Executes("upload", R, upload_request(method, u.url, data))

\* upload::Service::file_info(file_id)
UploadFileInfo(file_id) ==
  /\ Idle
  /\ IsSome(uploadClient)
  /\ LET fields == auth_fields(Unwrap(uploadClient), now)
     IN upload_call("GET", "/info/?pub_key=" \o fields.pub_key \o "&file_id=" \o file_id,
                    None, None, UploadFileInfoType)
  /\ UNCHANGED <<restClient, uploadClient, now>>
  /\ UNCHANGED <<authVars, chunkVars, laterVars>>

\* upload::Service::upload_part(url, data): Url::parse(url)?, then call_url
UploadPart(url, data) ==
  /\ Idle
  /\ IsSome(uploadClient)
  /\ IF ~ UrlParses(url) THEN Fails("upload", UnitType, ParseError)
     ELSE Executes("upload", UnitType, upload_request("PUT", url, Some(Raw(data))))
  /\ UNCHANGED <<restClient, uploadClient, now>>
  /\ UNCHANGED <<authVars, chunkVars, laterVars>>

\* upload::Service::multipart_complete(uuid)
MultipartComplete(uuid, boundary) ==
  /\ Idle
  /\ IsSome(uploadClient)
  /\ LET form == add_signature_expire(auth_fields(Unwrap(uploadClient), now),
                                      Text(Form(<<>>, boundary), "uuid", uuid))
     IN upload_call("POST", "/multipart/complete/", None, Some(form), UploadFileInfoType)
  /\ UNCHANGED <<restClient, uploadClient, now>>
  /\ UNCHANGED <<authVars, chunkVars, laterVars>>

\* client.execute(req) returns Err: `?` hands it to the caller
SendFails ==
  /\ pc = "sent"
  /\ result' = Err(SendError)
  /\ sent' = None
  /\ pc' = "idle"
  /\ UNCHANGED <<restClient, uploadClient, now, who, expect, nsent, resp>>
  /\ UNCHANGED <<authVars, chunkVars, laterVars>>

\* a call_url that executes the request once more when the answer is 429
RespondsRetrying(res) ==
  /\ pc = "sent"
  /\ resp' = Some(res)
  /\ IF res.status = 429 /\ nsent = 1
     THEN nsent' = nsent + 1 /\ result' = NoResult /\ UNCHANGED <<sent, pc>>
     ELSE /\ result' = IF who = "rest" THEN rest_result(res, expect)
                       ELSE upload_result(res, expect)
          /\ sent' = None
          /\ pc' = "idle"
          /\ UNCHANGED nsent
  /\ UNCHANGED <<restClient, uploadClient, now, who, expect>>
  /\ UNCHANGED <<authVars, chunkVars, laterVars>>

\* client.execute(req) returns the response; the match on its status
\* decides what the call returns
Responds(res) ==
  /\ pc = "sent"
  /\ resp' = Some(res)
  /\ result' = IF who = "rest" THEN rest_result(res, expect) ELSE upload_result(res, expect)
  /\ sent' = None
  /\ pc' = "idle"
  /\ UNCHANGED <<restClient, uploadClient, now, who, expect, nsent>>
  /\ UNCHANGED <<authVars, chunkVars, laterVars>>

-----------------------------------------------------------------------------
(* Actions: the signing routines called on their own                       *)

\* requests handed to the closures: those of the unit tests, one with an
\* Authorization header already set, one with a header of its own, and two
\* that call_url builds
WithHeader(r, name, value) == [r EXCEPT !.headers = Insert(r.headers, name, value)]
AuthRequests ==
  {setup_req, TestSignReq,
   WithHeader(TestSignReq, AUTH_HEADER_KEY, "Basic dXNlcjpwYXNz"),
   WithHeader(TestSignReq, "X-Request-Id", "42"),
   rest_build("DELETE", API_URL \o "/webhooks/unsubscribe/",
              Some(Bytes_("{\"target_url\":\"https://example.com/hook\"}")), 1541423681),
   rest_build("GET", API_URL \o "/project/", None, 1454903796)}
Expires == {t + SIGNED_UPLOAD_TTL : t \in Instants}
\* the secret keys above, and the one of the documented example signature
SecretKeys == {c.secret_key : c \in AcceptedCreds} \cup {"project_secret_key"}

Invocation(routine, creds, input, output) ==
  [routine |-> routine, creds |-> creds, input |-> input, output |-> output, at |-> now]

\* the invocation before the one made now is remembered or forgotten
Remember ==
  /\ (kept' = kept \/ kept' = invoked)
  /\ UNCHANGED <<clientVars, chunkVars, laterVars>>

InvokeRestSimple(creds, r) ==
  /\ invoked' = Some(Invocation("rest::auth::simple", creds, r,
                                IF simple_panics(creds, r) THEN Panic("auth.parse().unwrap()")
                                ELSE Ok(simple(creds, r))))
  /\ Remember

InvokeRestSignBased(creds, r) ==
  /\ invoked' = Some(Invocation("rest::auth::sign_based", creds, r,
                                IF sign_based_panics(creds, r) THEN Panic("sign_based")
                                ELSE Ok(sign_based(creds, r))))
  /\ Remember

InvokeUploadSimple(creds) ==
  /\ invoked' = Some(Invocation("upload::auth::simple", creds, <<>>,
                                Ok(upload_simple(creds))))
  /\ Remember

InvokeUploadSignBased(creds) ==
  /\ invoked' = Some(Invocation("upload::auth::sign_based", creds, <<>>,
                                Ok(upload_sign_based(creds, now))))
  /\ Remember

InvokeGetSignature(secret_key, expire) ==
  /\ invoked' = Some(Invocation("upload::auth::get_signature", secret_key, expire,
                                Ok(get_signature(secret_key, expire))))
  /\ Remember

AuthTick ==
  /\ \E t \in Instants : t > now /\ now' = t
  /\ UNCHANGED <<restClient, uploadClient, pc, who, sent, expect, nsent, resp, result>>
  /\ UNCHANGED <<authVars, chunkVars, laterVars>>

-----------------------------------------------------------------------------
(* tests/upload.rs: get_file_chunks                                        *)

chunk_size == 5242880
MaxFullChunks == 4
\* the file of the test has 10905778 bytes: two full chunks and 420018
Remainders == {0, 1, 420018, chunk_size - 1}
FileLengths == {k * chunk_size + r : k \in 0..MaxFullChunks, r \in Remainders}

Min(a, b) == IF a < b THEN a ELSE b
\* file.by_ref().take(chunk_size).read_to_end(&mut chunk): the bytes read
read_to_end(len, pos) == Min(chunk_size, len - pos)
\* a loop that pushes the chunk before it looks at n
pushes_before_break(n) == TRUE
\* `if n == 0 { break; }` stands before the push
pushes(n) == n # 0
\* a loop whose second break reads `n <= chunk_size`
breaks_at_full_chunk(n) == n = 0 \/ n <= chunk_size
\* a loop without the second break: it stops at the empty read only
breaks_at_empty_read(n) == n = 0
\* the two breaks
breaks(n) == n = 0 \/ n < chunk_size

\* fs::File::open(path)? succeeds
OpenFile ==
  /\ chunks_pc = "start"
  /\ chunks_pc' = "loop"
  /\ UNCHANGED <<file_len, file_pos, list_of_chunks, reads>>
  /\ UNCHANGED <<clientVars, authVars, laterVars>>

\* fs::File::open(path)? returns Err
OpenFails ==
  /\ chunks_pc = "start"
  /\ chunks_pc' = "failed"
  /\ UNCHANGED <<file_len, file_pos, list_of_chunks, reads>>
  /\ UNCHANGED <<clientVars, authVars, laterVars>>

\* one turn of the loop; the chunk holds file[file_pos .. file_pos + n)
ReadChunk ==
  /\ chunks_pc = "loop"
  /\ LET n == read_to_end(file_len, file_pos)
     IN /\ reads' = reads + 1
        /\ file_pos' = file_pos + n
        /\ list_of_chunks' = IF pushes(n) THEN Append(list_of_chunks, <<file_pos, n>>)
                             ELSE list_of_chunks
        /\ chunks_pc' = IF breaks(n) THEN "done" ELSE "loop"
  /\ UNCHANGED file_len
  /\ UNCHANGED <<clientVars, authVars, laterVars>>

\* read_to_end(&mut chunk)? returns Err: the chunks read so far are dropped
ReadFails ==
  /\ chunks_pc = "loop"
  /\ reads' = reads + 1
  /\ list_of_chunks' = <<>>
  /\ chunks_pc' = "failed"
  /\ UNCHANGED <<file_len, file_pos>>
  /\ UNCHANGED <<clientVars, authVars, laterVars>>

-----------------------------------------------------------------------------
(* Specifications                                                          *)

InitClients ==
  /\ restClient = None
  /\ uploadClient = None
  /\ pc = "idle"
  /\ who = "none"
  /\ sent = None
  /\ expect = UnitType
  /\ nsent = 0
  /\ resp = None
  /\ result = NoResult
InitNoAuth == invoked = None /\ kept = None
InitNoChunks ==
  /\ file_len = 0
  /\ file_pos = 0
  /\ list_of_chunks = <<>>
  /\ reads = 0
  /\ chunks_pc = "start"

InitNoFlow ==
  /\ mp_pc = "start"
  /\ mp_file = <<>>
  /\ mp_data = <<>>
  /\ mp_started = None
  /\ mp_next = 1
  /\ mp_log = <<>>
InitNoShare == callers = <<>> /\ wire = <<>>
InitNoServices == sv_pc = "idle" /\ sv_call = None /\ sv_req = None /\ sv_out = NoResult
InitNoPages ==
  /\ pg_pc = "done" /\ pg_svc = "file" /\ pg_chain = <<>> /\ pg_next = None
  /\ pg_files = <<>> /\ pg_asked = <<>> /\ pg_fail = None /\ pg_out = NoResult
InitNoLater == InitNoFlow /\ InitNoShare /\ InitNoServices /\ InitNoPages

\* the clients and their calls
Init == now \in Instants /\ InitClients /\ InitNoAuth /\ InitNoChunks /\ InitNoLater
Next ==
  \/ \E config \in RestConfigs, creds \in AcceptedCreds \cup EmptyCreds : NewRest(config, creds)
  \/ \E config \in UploadConfigs, creds \in AcceptedCreds \cup EmptyCreds :
       NewUpload(config, creds)
  \/ Tick
  \/ \E c \in RestCalls : RestCall(c)
  \/ \E url \in PageUrls : FileGetPage(url)
  \/ \E file_id \in FileIds : UploadFileInfo(file_id)
  \/ \E url \in PartUrls, data \in PartData : UploadPart(url, data)
  \/ \E uuid \in FileIds, boundary \in Boundaries : MultipartComplete(uuid, boundary)
  \/ SendFails
  \/ \E res \in Responses : Responds(res)
Spec == Init /\ [][Next]_vars

\* the signing routines
InitAuth == now \in Instants /\ InitClients /\ InitNoAuth /\ InitNoChunks /\ InitNoLater
NextAuth ==
  \/ \E creds \in AcceptedCreds, r \in AuthRequests : InvokeRestSimple(creds, r)
  \/ \E creds \in AcceptedCreds, r \in AuthRequests : InvokeRestSignBased(creds, r)
  \/ \E creds \in AcceptedCreds : InvokeUploadSimple(creds)
  \/ \E creds \in AcceptedCreds : InvokeUploadSignBased(creds)
  \/ \E secret_key \in SecretKeys, expire \in Expires :
       InvokeGetSignature(secret_key, expire)
  \/ AuthTick
SpecAuth == InitAuth /\ [][NextAuth]_vars

\* the file-splitting loop
InitChunks ==
  /\ now = 1454903796 /\ InitClients /\ InitNoAuth /\ InitNoLater
  /\ file_len \in FileLengths
  /\ file_pos = 0
  /\ list_of_chunks = <<>>
  /\ reads = 0
  /\ chunks_pc = "start"
NextChunks == OpenFile \/ OpenFails \/ ReadChunk \/ ReadFails
SpecChunks == InitChunks /\ [][NextChunks]_vars
LiveChunks == SpecChunks /\ WF_vars(NextChunks)

-----------------------------------------------------------------------------
(* tests/upload.rs: multipart, the test that drives a multipart upload     *)

\* the chunks get_file_chunks may return, and the parts a server may list
MaxTestChunks == 3
MaxParts == 3
TestChunks == <<"c1", "c2", "c3", "c4">>
TestPartUrls ==
  <<"https://s3.example.com/p1", "https://s3.example.com/p2",
    "https://s3.example.com/p3", "https://s3.example.com/p4">>
TestFiles == {SubSeq(TestChunks, 1, n) : n \in 0..MaxTestChunks}
\* tests/upload.rs: upload_client(), with sign_based_upload: true
TestUploadClient == upload_new([sign_based_upload |-> TRUE], ApiCreds("demoprivatekey", "testpk"))

\* the JSON text of a list of strings
RECURSIVE JoinQuoted(_)
JoinQuoted(s) ==
  IF Len(s) = 0 THEN ""
  ELSE IF Len(s) = 1 THEN "\"" \o s[1] \o "\""
  ELSE "\"" \o s[1] \o "\"," \o JoinQuoted(Tail(s))
MultipartDataBody(parts, uuid) ==
  "{\"parts\":[" \o JoinQuoted(parts) \o "],\"uuid\":\"" \o uuid \o "\"}"
\* what the server may answer to multipart_start, upload_part, multipart_complete
StartResponses ==
  {Response(200, NoHeaders, MultipartDataBody(SubSeq(TestPartUrls, 1, k), "d6d34fa9")) :
     k \in 0..MaxParts}
    \cup {Response(s, NoHeaders, b) : s \in {200, 400, 500}, b \in {"", "Not found."}}
PartResponses ==
  {Response(s, NoHeaders, b) : s \in {200, 403, 500}, b \in {"", "Forbidden"}}
CompleteResponses ==
  {Response(s, NoHeaders, b) :
     s \in {200, 400},
     b \in {"", "{\"uuid\":\"d6d34fa9\",\"file_id\":\"d6d34fa9\",\"size\":10905778}",
            "{\"uuid\":\"0e1cac48\",\"file_id\":\"0e1cac48\",\"size\":10905778}"}}

\* upload::Service::multipart_start up to client.execute(req); the test's
\* params: filename, size 10905778, content_type image/jpeg, to_store None
multipart_start_request(client, t, boundary) ==
  upload_request("POST", encode_url(UPLOAD_API_URL, "/multipart/start/", None).url,
    Some(add_signature_expire(auth_fields(client, t),
           Text(Text(Text(Text(Form(<<>>, boundary), "filename", "Porsche_7"),
                          "UPLOADCARE_STORE", "0"),
                     "content_type", "image/jpeg"),
                "size", "10905778"))))
\* upload::Service::multipart_complete up to client.execute(req)
multipart_complete_request(client, t, uuid, boundary) ==
  upload_request("POST", encode_url(UPLOAD_API_URL, "/multipart/complete/", None).url,
    Some(add_signature_expire(auth_fields(client, t),
                              Text(Form(<<>>, boundary), "uuid", uuid))))

\* one call of the test, as the log keeps it
Made(op, r, res) == [op |-> op, request |-> r, result |-> res]
\* .unwrap() of a call's result: the test goes on, or panics
Unwraps(res, goes_on) == mp_pc' = IF res.tag = "Ok" THEN goes_on ELSE "panicked"

\* let multipart_data = upload_svc.multipart_start(params).unwrap();
TestMultipartStart(res) ==
  /\ mp_pc = "start"
  /\ mp_log = <<>>
  /\ mp_log' = <<Made("multipart_start",
                      multipart_start_request(Unwrap(uploadClient), now, "b1"),
                      upload_result(res, MultipartDataType))>>
  /\ Unwraps(upload_result(res, MultipartDataType), "parts")
  /\ mp_started' = IF upload_result(res, MultipartDataType).tag = "Ok"
                   THEN Some(upload_result(res, MultipartDataType).value)
                   ELSE None
  /\ UNCHANGED <<mp_file, mp_data, mp_next>>
  /\ UNCHANGED <<clientVars, authVars, chunkVars, shareVars, svcVars, pageVars>>

\* the urls of multipart_data.parts
Parts == Unwrap(Unwrap(mp_started).parts)
\* upload::Service::upload_part(url, data): Url::parse(url)?, then call_url
upload_part_result(url, res) ==
  IF ~ UrlParses(url) THEN Err(ParseError) ELSE upload_result(res, UnitType)
\* one turn of `for url in multipart_data.parts.iter()`:
\* upload_svc.upload_part(url.as_str(), data.remove(0)).unwrap();
\* data.remove(0) panics on an empty vector, before the call
TestUploadPart(res) ==
  /\ mp_pc = "parts"
  /\ mp_next <= Len(Parts)
  /\ IF mp_data = <<>>
     THEN mp_pc' = "panicked" /\ UNCHANGED <<mp_data, mp_next, mp_log>>
     ELSE /\ mp_data' = Tail(mp_data)
          /\ mp_next' = mp_next + 1
          /\ mp_log' = Append(mp_log,
                         Made("upload_part",
                              upload_request("PUT", Parts[mp_next], Some(Raw(Head(mp_data)))),
                              upload_part_result(Parts[mp_next], res)))
          /\ Unwraps(upload_part_result(Parts[mp_next], res), "parts")
  /\ UNCHANGED <<mp_file, mp_started>>
  /\ UNCHANGED <<clientVars, authVars, chunkVars, shareVars, svcVars, pageVars>>

\* assert_eq!(file_info.uuid, multipart_data.uuid);
\* assert!(file_info.size > 10_000_000);
asserts_hold(file_info, multipart_data) ==
  /\ file_info.uuid = multipart_data.uuid
  /\ DigitsValue(Unwrap(file_info.size)) > 10000000
\* after the loop: upload_svc.multipart_complete(multipart_data.uuid.clone())
\* .unwrap(), then the two asserts
TestMultipartComplete(res) ==
  /\ mp_pc = "parts"
  /\ mp_next > Len(Parts)
  /\ mp_log' = Append(mp_log,
                 Made("multipart_complete",
                      multipart_complete_request(Unwrap(uploadClient), now,
                                                 Unwrap(Unwrap(mp_started).uuid), "b1"),
                      upload_result(res, UploadFileInfoType)))
  /\ mp_pc' = IF /\ upload_result(res, UploadFileInfoType).tag = "Ok"
                 /\ asserts_hold(upload_result(res, UploadFileInfoType).value,
                                 Unwrap(mp_started))
              THEN "passed" ELSE "panicked"
  /\ UNCHANGED <<mp_file, mp_data, mp_started, mp_next>>
  /\ UNCHANGED <<clientVars, authVars, chunkVars, shareVars, svcVars, pageVars>>

\* time passes between the calls of the test
TestTick ==
  /\ mp_pc \in {"start", "parts"}
  /\ \E t \in Instants : t > now /\ now' = t
  /\ UNCHANGED <<restClient, uploadClient, pc, who, sent, expect, nsent, resp, result>>
  /\ UNCHANGED <<authVars, chunkVars, flowVars, shareVars, svcVars, pageVars>>

\* the test has its client and the chunks of its file
InitMultipart ==
  /\ now \in Instants
  /\ restClient = None
  /\ uploadClient = Some(TestUploadClient.value)
  /\ pc = "idle" /\ who = "none" /\ sent = None /\ expect = UnitType
  /\ nsent = 0 /\ resp = None /\ result = NoResult
  /\ InitNoAuth /\ InitNoChunks
  /\ mp_pc = "start"
  /\ mp_file \in TestFiles
  /\ mp_data = mp_file
  /\ mp_started = None
  /\ mp_next = 1
  /\ mp_log = <<>>
  /\ InitNoShare /\ InitNoServices /\ InitNoPages
NextMultipart ==
  \/ \E res \in StartResponses : TestMultipartStart(res)
  \/ \E res \in PartResponses : TestUploadPart(res)
  \/ \E res \in CompleteResponses : TestMultipartComplete(res)
  \/ TestTick
SpecMultipart == InitMultipart /\ [][NextMultipart]_vars
-----------------------------------------------------------------------------
(* Several callers on one upload client: upload::Client takes &self and    *)
(* holds only the auth_fields closure and the http client                  *)

NumCallers == 2
Callers == 1..NumCallers
\* what a caller asks for: upload_part(url, data) or multipart_complete(uuid)
UploadPartCall(url, bytes) == [op |-> "upload_part", url |-> url, data |-> bytes]
MultipartCompleteCall(uuid) == [op |-> "multipart_complete", uuid |-> uuid]
SharedCalls ==
  {UploadPartCall(u, d) : u \in {TestPartUrls[1], TestPartUrls[2], "part.2"},
                          d \in {"c1", "c2"}}
    \cup {MultipartCompleteCall("d6d34fa9")}
SharedResponses == {Response(s, NoHeaders, "") : s \in {200, 403}}

\* the request a call hands to client.execute, if it gets that far
call_request(client, call, t) ==
  IF call.op = "upload_part"
  THEN (IF UrlParses(call.url)
        THEN Some(upload_request("PUT", call.url, Some(Raw(call.data))))
        ELSE None)
  ELSE Some(multipart_complete_request(client, t, call.uuid, "b1"))
\* the response type of a call
call_type(call) == IF call.op = "upload_part" THEN UnitType ELSE UploadFileInfoType

\* a client that kept the body of the request built before this one
call_request_shared_builder(client, call, t) ==
  IF call.op = "upload_part" /\ UrlParses(call.url) /\ wire # <<>>
  THEN Some([upload_request("PUT", call.url, Some(Raw(call.data)))
               EXCEPT !.body = wire[Len(wire)].request.body])
  ELSE call_request(client, call, t)
\* the request caller c's call executes
built_request(client, call, t) == call_request(client, call, t)

\* caller c enters its call; the request is built and executed, or the
\* call returns Err(ParseUrl) at once
BeginCall(c) ==
  /\ callers[c].pc = "ready"
  /\ IF IsSome(built_request(Unwrap(uploadClient), callers[c].call, now))
     THEN /\ wire' = Append(wire,
                       [caller |-> c,
                        request |-> Unwrap(built_request(Unwrap(uploadClient),
                                                         callers[c].call, now))])
          /\ callers' = [callers EXCEPT ![c].pc = "sent"]
     ELSE /\ callers' = [callers EXCEPT ![c].pc = "done", ![c].result = Err(ParseError)]
          /\ UNCHANGED wire
  /\ UNCHANGED <<clientVars, authVars, chunkVars, flowVars, svcVars, pageVars>>

\* caller c's request is answered; its call returns
EndCall(c, res) ==
  /\ callers[c].pc = "sent"
  /\ callers' = [callers EXCEPT ![c].pc = "done",
                                ![c].result = upload_result(res, call_type(callers[c].call))]
  /\ UNCHANGED wire
  /\ UNCHANGED <<clientVars, authVars, chunkVars, flowVars, svcVars, pageVars>>

\* caller c's request fails in transport
EndCallFails(c) ==
  /\ callers[c].pc = "sent"
  /\ callers' = [callers EXCEPT ![c].pc = "done", ![c].result = Err(SendError)]
  /\ UNCHANGED wire
  /\ UNCHANGED <<clientVars, authVars, chunkVars, flowVars, svcVars, pageVars>>

InitShared ==
  /\ now \in Instants
  /\ restClient = None
  /\ uploadClient \in {Some(upload_new([sign_based_upload |-> s],
                                       ApiCreds("demoprivatekey", "testpk")).value) :
                         s \in BOOLEAN}
  /\ pc = "idle" /\ who = "none" /\ sent = None /\ expect = UnitType
  /\ nsent = 0 /\ resp = None /\ result = NoResult
  /\ InitNoAuth /\ InitNoChunks /\ InitNoFlow /\ InitNoServices /\ InitNoPages
  /\ callers \in [Callers -> {[pc |-> "ready", call |-> k, result |-> NoResult] :
                               k \in SharedCalls}]
  /\ wire = <<>>
NextShared ==
  \/ \E c \in Callers : BeginCall(c)
  \/ \E c \in Callers, res \in SharedResponses : EndCall(c, res)
  \/ \E c \in Callers : EndCallFails(c)
SpecShared == InitShared /\ [][NextShared]_vars
-----------------------------------------------------------------------------
(* The REST services: file.rs, group.rs, conversion.rs, webhook.rs,        *)
(* project.rs.  Each operation encodes its parameters and enters           *)
(* rest::Client::call.                                                     *)

\* serde_json::to_string: a string with its quotes and escapes, a member,
\* an object of the members serialized, a list of strings
JString(s) == "\"" \o Replace(Replace(s, "\\", "\\\\"), "\"", "\\\"") \o "\""
Member(name, json) == <<JString(name) \o ":" \o json>>
RECURSIVE JoinComma(_)
JoinComma(items) ==
  IF Len(items) = 0 THEN ""
  ELSE IF Len(items) = 1 THEN items[1]
  ELSE items[1] \o "," \o JoinComma(Tail(items))
JObject(members) == "{" \o JoinComma(members) \o "}"
JStrings(items) == "[" \o JoinComma([i \in 1..Len(items) |-> JString(items[i])]) \o "]"
JBool(b) == IF b THEN "true" ELSE "false"
\* an Option field without attribute: null when None
OrNull(o) == IF IsSome(o) THEN Unwrap(o) ELSE "null"
\* an Option field with skip_serializing_if = "Option::is_none"
Skippable(name, o) == IF IsSome(o) THEN Member(name, Unwrap(o)) ELSE <<>>
\* Option::map over the model's options
JStringOpt(o) == IF IsSome(o) THEN Some(JString(Unwrap(o))) ELSE None
JBoolOpt(o) == IF IsSome(o) THEN Some(JBool(Unwrap(o))) ELSE None

\* file::ListParams::into_query
file_into_query(p) ==
  "removed=" \o (IF IsSome(p.removed) THEN JBool(Unwrap(p.removed)) ELSE "false") \o "&"
    \o (IF IsSome(p.stored) THEN "stored=" \o JBool(Unwrap(p.stored)) \o "&" ELSE "")
    \o "limit=" \o (IF IsSome(p.limit) THEN ToString(Unwrap(p.limit)) ELSE "1000") \o "&"
    \o "ordering=" \o (IF IsSome(p.ordering) THEN Unwrap(p.ordering) ELSE "datetime_uploaded")
    \o (IF IsSome(p.from) THEN "&from=" \o Unwrap(p.from) ELSE "")
\* group::ListParams::into_query
group_into_query(p) ==
  "limit=" \o (IF IsSome(p.limit) THEN ToString(Unwrap(p.limit)) ELSE "100") \o "&"
    \o "ordering=" \o (IF IsSome(p.ordering) THEN Unwrap(p.ordering) ELSE "datetime_created")
    \o (IF IsSome(p.from) THEN "&from=" \o Unwrap(p.from) ELSE "")

\* encode_json of file::CopyParams: ToStore, MakePublic and Pattern
\* serialize as their renamed strings
copy_params_json(p) ==
  JObject(Member("source", JString(p.source))
            \o Skippable("store", JStringOpt(p.store))
            \o Skippable("make_public", JStringOpt(p.make_public))
            \o Skippable("target", JStringOpt(p.target))
            \o Skippable("pattern", JStringOpt(p.pattern)))
\* encode_json of conversion::JobParams
job_params_json(p) ==
  JObject(Member("paths", JStrings(p.paths))
            \o Member("store", OrNull(JStringOpt(p.store))))
\* encode_json of webhook::CreateParams
create_params_json(p) ==
  JObject(Member("event", JString(p.event))
            \o Member("target_url", JString(p.target_url))
            \o Member("signing_secret", OrNull(JStringOpt(p.signing_secret)))
            \o Member("is_active", OrNull(JBoolOpt(p.is_active))))
\* encode_json of webhook::UpdateParams
update_params_json(p) ==
  JObject(Member("id", ToString(p.id))
            \o Skippable("event", JStringOpt(p.event))
            \o Skippable("target_url", JStringOpt(p.target_url))
            \o Member("signing_secret", OrNull(JStringOpt(p.signing_secret)))
            \o Skippable("is_active", JBoolOpt(p.is_active)))
\* encode_json of webhook::DeleteParams
delete_params_json(p) == JObject(Member("target_url", JString(p.target_url)))

\* The response types, by their scalar members; a member that is an object
\* or a list of objects takes kind "object", which no flat document has
FileInfoType ==
  Struct([uuid |-> Field("string", FALSE), datetime_removed |-> Field("string", TRUE),
          datetime_stored |-> Field("string", TRUE), datetime_uploaded |-> Field("string", TRUE),
          image_info |-> Field("object", TRUE), is_image |-> Field("bool", TRUE),
          is_ready |-> Field("bool", TRUE), mime_type |-> Field("string", TRUE),
          original_file_url |-> Field("string", TRUE),
          original_filename |-> Field("string", TRUE), size |-> Field("number", TRUE),
          url |-> Field("string", TRUE), variations |-> Field("object", TRUE),
          video_info |-> Field("object", TRUE), source |-> Field("string", TRUE),
          rekognition_info |-> Field("object", TRUE)])
\* file::List (results: the files, each written as its uuid)
FileListType ==
  Struct([results |-> Field("array", TRUE), next |-> Field("string", TRUE),
          previous |-> Field("string", TRUE), total |-> Field("number", TRUE),
          per_page |-> Field("number", TRUE)])
BatchInfoType ==
  Struct([problems |-> Field("object", TRUE), result |-> Field("object", TRUE)])
LocalCopyInfoType == Struct([result |-> Field("object", FALSE)])
RemoteCopyInfoType == Struct([result |-> Field("string", TRUE)])
GroupInfoType ==
  Struct([id |-> Field("string", FALSE), datetime_created |-> Field("string", TRUE),
          datetime_stored |-> Field("string", TRUE), files_count |-> Field("number", FALSE),
          cdn_url |-> Field("string", FALSE)])
\* (results: the groups, each written as its id)
GroupListType ==
  Struct([results |-> Field("array", TRUE), next |-> Field("string", TRUE),
          previous |-> Field("string", TRUE), total |-> Field("number", TRUE),
          per_page |-> Field("number", TRUE)])
JobResultType ==
  Struct([problems |-> Field("object", TRUE), result |-> Field("object", TRUE)])
StatusResultType ==
  Struct([status |-> Field("string", FALSE), error |-> Field("string", TRUE),
          result |-> Field("object", FALSE)])
WebhookInfoType ==
  Struct([id |-> Field("number", FALSE), created |-> Field("string", FALSE),
          updated |-> Field("string", FALSE), event |-> Field("string", FALSE),
          target_url |-> Field("string", FALSE), signing_secret |-> Field("string", FALSE),
          project |-> Field("number", FALSE), is_active |-> Field("bool", FALSE)])
\* webhook::List = Vec<Info>: of the flat documents only [] is one
WebhookListType == [shape |-> "seq"]

\* Display of ucare::Error: "Uploadcare: {value}", and of ErrValue
error_to_string(value) ==
  "Uploadcare: Uploadcare: "
    \o (IF value.variant = "TooManyRequests"
        THEN "too many requests, retry after " \o ToString(value.retry_after)
        ELSE value.arg)

\* what the callers pass
Tokens == {5}
GroupIds == {"d6d34fa9~2"}
FileListParams ==
  {[removed |-> None, stored |-> s, limit |-> l, ordering |-> None, from |-> None] :
     s \in {None, Some(TRUE)}, l \in {None, Some(5)}}
GroupListParams ==
  {[limit |-> l, ordering |-> None, from |-> f] :
     l \in {None, Some(5)}, f \in {None, Some("2015-01-02T10:00:00")}}
CopyParamsSet ==
  {[source |-> "d6d34fa9", store |-> s, make_public |-> m, target |-> t,
    pattern |-> p] :
     s \in {None, Some("true")}, m \in {None, Some("false")},
     t \in {None, Some("s3")}, p \in {None, Some("${uuid}")}}
JobParamsSet ==
  {[paths |-> <<"d6d34fa9/document/-/format/pdf/">>, store |-> s] :
     s \in {None, Some("true")}}
CreateParamsSet ==
  {[event |-> "file.uploaded", target_url |-> "https://a.io/h",
    signing_secret |-> s, is_active |-> a] :
     s \in {None, Some("s3cret")}, a \in {None, Some(TRUE), Some(FALSE)}}
UpdateParamsSet ==
  {[id |-> 7, event |-> e, target_url |-> u, signing_secret |-> s, is_active |-> a] :
     e \in {None, Some("file.uploaded")}, u \in {None, Some("https://a.io/h")},
     s \in {None, Some("s3cret")}, a \in {None, Some(FALSE)}}
DeleteParamsSet == {[target_url |-> "https://a.io/h"]}
\* what the server may answer to a service operation
ServiceResponses ==
  {Response(s, NoHeaders, b) :
     s \in {200, 400},
     b \in {"", "\"ok\"", "{\"detail\":\"Not found.\"}", "[]"}}

\* a service operation encodes its parameters and enters rest::Client::call
\* with a method, a path, a query, a body and the type of its result
ServiceCall(op, params, method, path, query, body, R) ==
  /\ sv_pc = "idle"
  /\ IsSome(restClient)
  /\ sv_call' = Some([op |-> op, params |-> params, method |-> method, path |-> path,
                      query |-> query, data |-> body, R |-> R])
  /\ sv_pc' = "called"
  /\ UNCHANGED <<sv_req, sv_out>>

\* rest::Client::call: the URL is encoded, and call_url builds the request
\* and executes it; Err(ParseUrl) or a panic of the auth closure ends the
\* call before that
ClientCall ==
  /\ sv_pc = "called"
  /\ IF ~ encode_url(API_URL, Unwrap(sv_call).path, Unwrap(sv_call).query).ok
     THEN sv_req' = None /\ sv_out' = Err(ParseError) /\ sv_pc' = "returned"
     ELSE IF set_auth_header_panics(Unwrap(restClient),
               rest_build(Unwrap(sv_call).method,
                          encode_url(API_URL, Unwrap(sv_call).path, Unwrap(sv_call).query).url,
                          Unwrap(sv_call).data, now))
     THEN sv_req' = None /\ sv_out' = Panic("set_auth_header") /\ sv_pc' = "returned"
     ELSE /\ sv_req' = Some(rest_request(Unwrap(restClient), Unwrap(sv_call).method,
                             encode_url(API_URL, Unwrap(sv_call).path,
                                        Unwrap(sv_call).query).url,
                             Unwrap(sv_call).data, now))
          /\ sv_out' = NoResult
          /\ sv_pc' = "sent"
  /\ UNCHANGED sv_call
  /\ UNCHANGED <<clientVars, authVars, chunkVars, flowVars, shareVars, pageVars>>

\* file::Service
FileInfo(file_id) ==
  /\ ServiceCall("file::info", file_id, "GET", "/files/" \o file_id \o "/",
                 None, None, FileInfoType)
  /\ UNCHANGED <<clientVars, authVars, chunkVars, flowVars, shareVars, pageVars>>
FileList(params) ==
  /\ ServiceCall("file::list", params, "GET", "/files/", Some(file_into_query(params)),
                 None, FileListType)
  /\ UNCHANGED <<clientVars, authVars, chunkVars, flowVars, shareVars, pageVars>>
FileStore(file_id) ==
  /\ ServiceCall("file::store", file_id, "PUT", "/files/" \o file_id \o "/storage/",
                 None, None, FileInfoType)
  /\ UNCHANGED <<clientVars, authVars, chunkVars, flowVars, shareVars, pageVars>>
FileBatchStore(file_ids) ==
  /\ ServiceCall("file::batch_store", file_ids, "PUT", "/files/storage/", None,
                 Some(Bytes_(JStrings(file_ids))), BatchInfoType)
  /\ UNCHANGED <<clientVars, authVars, chunkVars, flowVars, shareVars, pageVars>>
FileDelete(file_id) ==
  /\ ServiceCall("file::delete", file_id, "DELETE", "/files/" \o file_id \o "/",
                 None, None, FileInfoType)
  /\ UNCHANGED <<clientVars, authVars, chunkVars, flowVars, shareVars, pageVars>>
FileBatchDelete(file_ids) ==
  /\ ServiceCall("file::batch_delete", file_ids, "DELETE", "/files/storage/", None,
                 Some(Bytes_(JStrings(file_ids))), BatchInfoType)
  /\ UNCHANGED <<clientVars, authVars, chunkVars, flowVars, shareVars, pageVars>>
FileCopy(params) ==
  /\ ServiceCall("file::copy", params, "POST", "/files/", None,
                 Some(Bytes_(copy_params_json(params))), LocalCopyInfoType)
  /\ UNCHANGED <<clientVars, authVars, chunkVars, flowVars, shareVars, pageVars>>
\* a variant of local_copy that sends the parameters as given
local_copy_as_given(params) == params
\* local_copy: the two `if let None` assignments before encode_json
local_copy_defaults(params) ==
  [params EXCEPT !.store = IF IsSome(@) THEN @ ELSE Some("false"),
                 !.make_public = IF IsSome(@) THEN @ ELSE Some("true")]
FileLocalCopy(params) ==
  /\ ServiceCall("file::local_copy", params, "POST", "/files/local_copy/", None,
                 Some(Bytes_(copy_params_json(local_copy_defaults(params)))),
                 LocalCopyInfoType)
  /\ UNCHANGED <<clientVars, authVars, chunkVars, flowVars, shareVars, pageVars>>
\* remote_copy: the `if let None` assignment before encode_json
remote_copy_defaults(params) ==
  [params EXCEPT !.make_public = IF IsSome(@) THEN @ ELSE Some("true")]
FileRemoteCopy(params) ==
  /\ ServiceCall("file::remote_copy", params, "POST", "/files/remote_copy/", None,
                 Some(Bytes_(copy_params_json(remote_copy_defaults(params)))),
                 RemoteCopyInfoType)
  /\ UNCHANGED <<clientVars, authVars, chunkVars, flowVars, shareVars, pageVars>>

\* group::Service
GroupInfo(group_id) ==
  /\ ServiceCall("group::info", group_id, "GET", "/groups/" \o group_id \o "/",
                 None, None, GroupInfoType)
  /\ UNCHANGED <<clientVars, authVars, chunkVars, flowVars, shareVars, pageVars>>
GroupList(params) ==
  /\ ServiceCall("group::list", params, "GET", "/groups/",
                 Some(group_into_query(params)), None, GroupListType)
  /\ UNCHANGED <<clientVars, authVars, chunkVars, flowVars, shareVars, pageVars>>
GroupStore(group_id) ==
  /\ ServiceCall("group::store", group_id, "PUT", "/groups/" \o group_id \o "/storage/",
                 None, None, GroupInfoType)
  /\ UNCHANGED <<clientVars, authVars, chunkVars, flowVars, shareVars, pageVars>>

\* conversion::Service
ConversionDocument(params) ==
  /\ ServiceCall("conversion::document", params, "POST", "/convert/document/", None,
                 Some(Bytes_(job_params_json(params))), JobResultType)
  /\ UNCHANGED <<clientVars, authVars, chunkVars, flowVars, shareVars, pageVars>>
ConversionDocumentStatus(token) ==
  /\ ServiceCall("conversion::document_status", token, "GET",
                 "/convert/document/status/" \o ToString(token) \o "/",
                 None, None, StatusResultType)
  /\ UNCHANGED <<clientVars, authVars, chunkVars, flowVars, shareVars, pageVars>>
ConversionVideo(params) ==
  /\ ServiceCall("conversion::video", params, "POST", "/convert/video", None,
                 Some(Bytes_(job_params_json(params))), JobResultType)
  /\ UNCHANGED <<clientVars, authVars, chunkVars, flowVars, shareVars, pageVars>>
ConversionVideoStatus(token) ==
  /\ ServiceCall("conversion::video_status", token, "POST",
                 "convert/video/status/" \o ToString(token) \o "/",
                 None, None, StatusResultType)
  /\ UNCHANGED <<clientVars, authVars, chunkVars, flowVars, shareVars, pageVars>>

\* webhook::Service
\* create without the default of is_active
create_as_given(params) == params
\* create: if params.is_active.is_none() { params.is_active = Some(true) }
create_defaults(params) ==
  [params EXCEPT !.is_active = IF IsSome(@) THEN @ ELSE Some(TRUE)]
WebhookList ==
  /\ ServiceCall("webhook::list", "()", "GET", "/webhooks/", None, None, WebhookListType)
  /\ UNCHANGED <<clientVars, authVars, chunkVars, flowVars, shareVars, pageVars>>
WebhookCreate(params) ==
  /\ ServiceCall("webhook::create", params, "POST", "/webhooks/", None,
                 Some(Bytes_(create_params_json(create_defaults(params)))),
                 WebhookInfoType)
  /\ UNCHANGED <<clientVars, authVars, chunkVars, flowVars, shareVars, pageVars>>
WebhookUpdate(params) ==
  /\ ServiceCall("webhook::update", params, "PUT",
                 "/webhooks/" \o ToString(params.id) \o "/", None,
                 Some(Bytes_(update_params_json(params))), WebhookInfoType)
  /\ UNCHANGED <<clientVars, authVars, chunkVars, flowVars, shareVars, pageVars>>
WebhookDelete(params) ==
  /\ ServiceCall("webhook::delete", params, "DELETE", "/webhooks/unsubscribe/", None,
                 Some(Bytes_(delete_params_json(params))), StringType)
  /\ UNCHANGED <<clientVars, authVars, chunkVars, flowVars, shareVars, pageVars>>

\* project::Service
ProjectInfo ==
  /\ ServiceCall("project::info", "()", "GET", "/project/", None, None, ProjectInfoType)
  /\ UNCHANGED <<clientVars, authVars, chunkVars, flowVars, shareVars, pageVars>>

\* what the operation makes of what Client::call returned: webhook delete
\* drops an error whose text contains "EOF" and returns Ok(()) for any Ok,
\* the other operations return it as it is
service_result(op, called) ==
  IF op # "webhook::delete" \/ called.tag = "Panic" THEN called
  ELSE IF called.tag = "Err" /\ ~ Contains(error_to_string(called.err), "EOF") THEN called
  ELSE Ok("()")

\* the response arrives; call_url matches on its status, the operation returns
ServiceResponds(res) ==
  /\ sv_pc = "sent"
  /\ sv_out' = service_result(Unwrap(sv_call).op, rest_result(res, Unwrap(sv_call).R))
  /\ resp' = Some(res)
  /\ sv_pc' = "returned"
  /\ UNCHANGED <<sv_call, sv_req>>
  /\ UNCHANGED <<restClient, uploadClient, now, pc, who, sent, expect, nsent, result>>
  /\ UNCHANGED <<authVars, chunkVars, flowVars, shareVars, pageVars>>
\* client.execute(req)? fails
ServiceSendFails ==
  /\ sv_pc = "sent"
  /\ sv_out' = service_result(Unwrap(sv_call).op, Err(SendError))
  /\ sv_pc' = "returned"
  /\ UNCHANGED <<sv_call, sv_req>>
  /\ UNCHANGED <<clientVars, authVars, chunkVars, flowVars, shareVars, pageVars>>
\* the caller drops what it got and goes on to its next call
ServiceNext ==
  /\ sv_pc = "returned"
  /\ sv_pc' = "idle"
  /\ resp' = None
  /\ sv_call' = None /\ sv_req' = None /\ sv_out' = NoResult
  /\ UNCHANGED <<restClient, uploadClient, now, pc, who, sent, expect, nsent, result>>
  /\ UNCHANGED <<authVars, chunkVars, flowVars, shareVars, pageVars>>

InitServices ==
  /\ now \in Instants
  /\ restClient \in {Some(rest_new(RestConfig(FALSE, "v0.6"), c).value) : c \in ValidCreds}
  /\ uploadClient = None
  /\ pc = "idle" /\ who = "none" /\ sent = None /\ expect = UnitType
  /\ nsent = 0 /\ resp = None /\ result = NoResult
  /\ InitNoAuth /\ InitNoChunks /\ InitNoFlow /\ InitNoShare
  /\ InitNoServices /\ InitNoPages
NextServices ==
  \/ \E f \in FileIds : FileInfo(f)
  \/ \E p \in FileListParams : FileList(p)
  \/ \E f \in FileIds : FileStore(f)
  \/ \E f \in FileIds : FileBatchStore(<<f>>)
  \/ \E f \in FileIds : FileDelete(f)
  \/ \E f \in FileIds : FileBatchDelete(<<f>>)
  \/ \E p \in CopyParamsSet : FileCopy(p)
  \/ \E p \in CopyParamsSet : FileLocalCopy(p)
  \/ \E p \in CopyParamsSet : FileRemoteCopy(p)
  \/ \E g \in GroupIds : GroupInfo(g)
  \/ \E p \in GroupListParams : GroupList(p)
  \/ \E g \in GroupIds : GroupStore(g)
  \/ \E p \in JobParamsSet : ConversionDocument(p)
  \/ \E k \in Tokens : ConversionDocumentStatus(k)
  \/ \E p \in JobParamsSet : ConversionVideo(p)
  \/ \E k \in Tokens : ConversionVideoStatus(k)
  \/ WebhookList
  \/ \E p \in CreateParamsSet : WebhookCreate(p)
  \/ \E p \in UpdateParamsSet : WebhookUpdate(p)
  \/ \E p \in DeleteParamsSet : WebhookDelete(p)
  \/ ProjectInfo
  \/ ClientCall
  \/ \E res \in ServiceResponses : ServiceResponds(res)
  \/ ServiceSendFails
  \/ ServiceNext
SpecServices == InitServices /\ [][NextServices]_vars
-----------------------------------------------------------------------------
(* The documented pagination loops of file::Service::list and              *)
(* group::Service::list, against a server whose pages link one another     *)

MaxPages == 3
\* the results of the server's pages, and the URL of page i
PageResults == <<<<"a1", "a2">>, <<>>, <<"c1">>, <<"d1">>>>
ListPath(svc) == IF svc = "file" THEN "/files/" ELSE "/groups/"
DocQuery(svc) ==
  IF svc = "file"
  THEN file_into_query([removed |-> None, stored |-> None, limit |-> Some(10),
                        ordering |-> Some("size"), from |-> None])
  ELSE group_into_query([limit |-> Some(10), ordering |-> Some("-datetime_created"),
                         from |-> None])
PageUrl(svc, i) ==
  IF i = 1 THEN encode_url(API_URL, ListPath(svc), Some(DocQuery(svc))).url
  ELSE API_URL \o ListPath(svc) \o "?offset=" \o ToString(i - 1)
\* a chain of n pages: each links the next, the last links none
Chain(svc, n) ==
  [i \in 1..n |-> [results |-> PageResults[i],
                   next |-> IF i < n THEN Some(PageUrl(svc, i + 1)) ELSE None]]
\* the page a URL addresses
PageAt(svc, url) == CHOOSE i \in 1..Len(pg_chain) : PageUrl(svc, i) = url
\* the server's JSON of a page
PageBody(page) ==
  JObject(Member("next", OrNull(JStringOpt(page.next)))
            \o Member("results", JStrings(page.results)))
\* the answers to a request for a page: the page itself, or a failure
Served(page) == Response(200, NoHeaders, PageBody(page))
Failures ==
  {Response(404, NoHeaders, "{\"detail\":\"Not found.\"}"),
   Response(400, NoHeaders, "{\"detail\":\"Bad request.\"}"),
   Response(500, NoHeaders, "")}
\* the response type of a service's list and get_page
PageType(svc) == IF svc = "file" THEN FileListType ELSE GroupListType
\* no answer at all: the request failed in transport
Lost == Response(0, NoHeaders, "")
\* what list or get_page returns for an answer
page_result(svc, answer) ==
  IF answer = Lost THEN Err(SendError) ELSE rest_result(answer, PageType(svc))
\* Err(e).unwrap(): the panic carries e
PanicWith(at, e) == [tag |-> "Panic", at |-> at, err |-> e]

\* the loop takes a page that arrived: its next link, then its results
TakesPage(page) ==
  /\ pg_next' = page.next
  /\ IF IsSome(page.results)
     THEN pg_files' = pg_files \o Unwrap(page.results)
            /\ pg_pc' = "loop" /\ pg_out' = NoResult
     ELSE pg_pc' = "panicked" /\ pg_out' = Panic("results.unwrap()")
            /\ UNCHANGED pg_files

\* let list = svc.list(params)?; next_page = list.next;
\* files = list.results.unwrap()
DocList(answer) ==
  /\ pg_pc = "list"
  /\ pg_asked' = Append(pg_asked, PageUrl(pg_svc, 1))
  /\ pg_fail' = IF answer = Served(pg_chain[1]) THEN None ELSE Some(answer)
  /\ IF page_result(pg_svc, answer).tag = "Ok"
     THEN TakesPage(page_result(pg_svc, answer).value)
     ELSE /\ pg_pc' = "failed"
          /\ pg_out' = page_result(pg_svc, answer)
          /\ UNCHANGED <<pg_next, pg_files>>
  /\ UNCHANGED <<pg_svc, pg_chain>>
  /\ UNCHANGED <<clientVars, authVars, chunkVars, flowVars, shareVars, svcVars>>

\* while let Some(next) = next_page: get_page(next), unwrapped in the file
\* loop and returned with ? in the group loop; then the page is taken
DocGetPage(answer) ==
  /\ pg_pc = "loop"
  /\ IsSome(pg_next)
  /\ IF ~ UrlParses(Unwrap(pg_next))
     THEN /\ pg_pc' = IF pg_svc = "file" THEN "panicked" ELSE "failed"
          /\ pg_out' = IF pg_svc = "file" THEN PanicWith("get_page.unwrap()", ParseError)
                       ELSE Err(ParseError)
          /\ UNCHANGED <<pg_next, pg_files, pg_asked, pg_fail>>
     ELSE /\ pg_asked' = Append(pg_asked, Unwrap(pg_next))
          /\ pg_fail' = IF answer = Served(pg_chain[PageAt(pg_svc, Unwrap(pg_next))])
                        THEN None ELSE Some(answer)
          /\ IF page_result(pg_svc, answer).tag = "Ok"
             THEN TakesPage(page_result(pg_svc, answer).value)
             ELSE /\ pg_pc' = IF pg_svc = "file" THEN "panicked" ELSE "failed"
                  /\ pg_out' = IF pg_svc = "file"
                               THEN PanicWith("get_page.unwrap()",
                                              page_result(pg_svc, answer).err)
                               ELSE page_result(pg_svc, answer)
                  /\ UNCHANGED <<pg_next, pg_files>>
  /\ UNCHANGED <<pg_svc, pg_chain>>
  /\ UNCHANGED <<clientVars, authVars, chunkVars, flowVars, shareVars, svcVars>>

\* next_page is None: the loop is over
DocLoopEnds ==
  /\ pg_pc = "loop"
  /\ ~ IsSome(pg_next)
  /\ pg_pc' = "done"
  /\ UNCHANGED <<pg_svc, pg_chain, pg_next, pg_files, pg_asked, pg_fail, pg_out>>
  /\ UNCHANGED <<clientVars, authVars, chunkVars, flowVars, shareVars, svcVars>>

\* the answers the server may give to the request the loop makes next
AnswersNow ==
  {Lost} \cup Failures
    \cup (IF pg_pc = "list" THEN {Served(pg_chain[1])}
          ELSE IF pg_pc = "loop" /\ IsSome(pg_next) /\ UrlParses(Unwrap(pg_next))
          THEN {Served(pg_chain[PageAt(pg_svc, Unwrap(pg_next))])}
          ELSE {})

InitPages ==
  /\ now \in Instants
  /\ restClient \in {Some(rest_new(RestConfig(FALSE, v), c).value) :
                       v \in ApiVersions, c \in ValidCreds}
  /\ uploadClient = None
  /\ pc = "idle" /\ who = "none" /\ sent = None /\ expect = UnitType
  /\ nsent = 0 /\ resp = None /\ result = NoResult
  /\ InitNoAuth /\ InitNoChunks /\ InitNoFlow /\ InitNoShare /\ InitNoServices
  /\ pg_pc = "list"
  /\ pg_svc \in {"file", "group"}
  /\ \E n \in 1..MaxPages : pg_chain = Chain(pg_svc, n)
  /\ pg_next = None /\ pg_files = <<>> /\ pg_asked = <<>>
  /\ pg_fail = None /\ pg_out = NoResult
NextPages ==
  \/ \E answer \in AnswersNow : DocList(answer)
  \/ \E answer \in AnswersNow : DocGetPage(answer)
  \/ DocLoopEnds
SpecPages == InitPages /\ [][NextPages]_vars

-----------------------------------------------------------------------------
(* Client::new of both clients, on its own                                 *)

\* credentials a caller may pass: the accepted ones, the empty ones, and a
\* public key with a line break in it
NewCreds ==
  AcceptedCreds \cup EmptyCreds
    \cup {ApiCreds("", ""), ApiCreds("demoprivatekey", "test\npk")}

\* let client = rest::Client::new(config, creds): the binding holds a client
\* only when new returned Ok
RestClientNew(config, creds) ==
  /\ invoked' = Some(Invocation("rest::Client::new", creds, config, rest_new(config, creds)))
  /\ restClient' = IF rest_new(config, creds).tag = "Ok"
                   THEN Some(rest_new(config, creds).value) ELSE None
  /\ kept' = kept
  /\ UNCHANGED <<uploadClient, now, pc, who, sent, expect, nsent, resp, result>>
  /\ UNCHANGED <<chunkVars, laterVars>>

\* let client = upload::Client::new(config, creds)
UploadClientNew(config, creds) ==
  /\ invoked' = Some(Invocation("upload::Client::new", creds, config,
                                upload_new(config, creds)))
  /\ uploadClient' = IF upload_new(config, creds).tag = "Ok"
                     THEN Some(upload_new(config, creds).value) ELSE None
  /\ kept' = kept
  /\ UNCHANGED <<restClient, now, pc, who, sent, expect, nsent, resp, result>>
  /\ UNCHANGED <<chunkVars, laterVars>>

InitNew == now = 1454903796 /\ InitClients /\ InitNoAuth /\ InitNoChunks /\ InitNoLater
NextNew ==
  \/ \E config \in RestConfigs, creds \in NewCreds : RestClientNew(config, creds)
  \/ \E config \in UploadConfigs, creds \in NewCreds : UploadClientNew(config, creds)
SpecNew == InitNew /\ [][NextNew]_vars

-----------------------------------------------------------------------------
(* The Date header of call_url, at the turn of the year                    *)

\* day numbers of 1 January 2017 (a Sunday) and of 1 January 2019 (a Tuesday)
NewYears == {17167, 17897}
DaysAround == 2
\* the first and the last second of the days around 1 January
DateInstants ==
  {(ny + k) * 86400 + s : ny \in NewYears, k \in (0 - DaysAround)..DaysAround,
                          s \in {0, 86399}}

\* call_url builds a request at the instant the clock shows
StampsDate(method, url) ==
  /\ invoked' = Some(Invocation("rest::Client::call_url", <<>>, <<method, url>>,
                                Ok(rest_build(method, url, None, now))))
  /\ kept' = kept
  /\ UNCHANGED <<clientVars, chunkVars, laterVars>>
\* time passes
DateTick ==
  /\ \E t \in DateInstants : t > now /\ now' = t
  /\ UNCHANGED <<restClient, uploadClient, pc, who, sent, expect, nsent, resp, result>>
  /\ UNCHANGED <<authVars, chunkVars, laterVars>>

InitDates == now \in DateInstants /\ InitClients /\ InitNoAuth /\ InitNoChunks /\ InitNoLater
NextDates ==
  \/ StampsDate("GET", API_URL \o "/project/")
  \/ DateTick
SpecDates == InitDates /\ [][NextDates]_vars

-----------------------------------------------------------------------------
(* upload.rs: the operations that send a form                              *)

\* upload::FromUrlData, an untagged enum: its first variant, Token(FileToken),
\* decides for the answers met here
FileTokenType ==
  Struct([type |-> Field("string", FALSE), token |-> Field("string", TRUE)])
\* Form::file(name, path): the part streams the file at path
FilePart(form, name, path) == [form EXCEPT !.fields = Append(form.fields, <<name, path>>)]
\* ToStore as the form carries it, ToStore::False when the caller gave none
StoreOr0(to_store) == IF IsSome(to_store) THEN Unwrap(to_store) ELSE "0"
\* form.text(name, val) if the option holds a value
TextIfSome(form, name, opt) == IF IsSome(opt) THEN Text(form, name, Unwrap(opt)) ELSE form
\* files[0], files[1], ... of create_group
RECURSIVE GroupForm(_, _, _)
GroupForm(form, ids, pos) ==
  IF pos >= Len(ids) THEN form
  ELSE GroupForm(Text(form, "files[" \o ToString(pos) \o "]", ids[pos + 1]), ids, pos + 1)

FileParamsSet ==
  {[path |-> "/tmp/i.png", name |-> "i.png", to_store |-> s] : s \in {None, Some("1")}}
FromUrlParamsSet ==
  {[source_url |-> "https://a.io/i.png", to_store |-> s, filename |-> f,
    check_url_duplicates |-> c, save_url_duplicates |-> None] :
     s \in {None, Some("auto")}, f \in {None, Some("i.png")}, c \in {None, Some("1")}}
GroupIdLists == {<<>>, <<"d6d34fa9">>, <<"d6d34fa9", "b1026315/-/resize/x800/">>}
MultipartParamsSet ==
  {[filename |-> "Porsche_7", size |-> 10905778, content_type |-> "image/jpeg",
    to_store |-> s] : s \in {None, Some("1")}}
FormResponses ==
  {Response(200, NoHeaders, ""),
   Response(200, NoHeaders, "{\"type\":\"token\",\"token\":\"t\"}"),
   Response(400, NoHeaders, "signature is required"),
   Response(429, NoHeaders, "")}

\* form = add_signature_expire(&(*self.client.auth_fields)(), form), then
\* self.client.call(Method::POST, path, None, Some(Payload::Form(form)))
FormCall(path, form, R) ==
  /\ Idle
  /\ IsSome(uploadClient)
  /\ invoked' = Some(Invocation("upload::Client::auth_fields", Unwrap(uploadClient).creds,
                                <<>>, Ok(auth_fields(Unwrap(uploadClient), now))))
  /\ upload_call("POST", path, None,
                 Some(add_signature_expire(auth_fields(Unwrap(uploadClient), now), form)), R)
  /\ kept' = kept
  /\ UNCHANGED <<restClient, uploadClient, now>>

\* upload::Service::file: Form::file()? returns the io::Error of a file that
\* does not open
UploadFile(params, opens, boundary) ==
  /\ IF opens
     THEN FormCall("/base/",
                   Text(FilePart(Form(<<>>, boundary), params.name, params.path),
                        "UPLOADCARE_STORE", StoreOr0(params.to_store)),
                   MapType)
     ELSE /\ Idle
          /\ IsSome(uploadClient)
          /\ Fails("upload", MapType,
                   ErrValue("InputOutput", "No such file or directory (os error 2)"))
          /\ UNCHANGED <<restClient, uploadClient, now, authVars>>
  /\ UNCHANGED <<chunkVars, laterVars>>
\* upload::Service::from_url
UploadFromUrl(params, boundary) ==
  /\ FormCall("/from_url/",
              TextIfSome(
                TextIfSome(
                  TextIfSome(
                    Text(Text(Form(<<>>, boundary), "source_url", params.source_url),
                         "store", StoreOr0(params.to_store)),
                    "filename", params.filename),
                  "check_URL_duplicates", params.check_url_duplicates),
                "save_URL_duplicates", params.save_url_duplicates),
              FileTokenType)
  /\ UNCHANGED <<chunkVars, laterVars>>
\* upload::Service::create_group
UploadCreateGroup(ids, boundary) ==
  /\ FormCall("/group/", GroupForm(Form(<<>>, boundary), ids, 0), GroupInfoType)
  /\ UNCHANGED <<chunkVars, laterVars>>
\* upload::Service::multipart_start
UploadMultipartStart(params, boundary) ==
  /\ FormCall("/multipart/start/",
              Text(Text(Text(Text(Form(<<>>, boundary), "filename", params.filename),
                             "UPLOADCARE_STORE", StoreOr0(params.to_store)),
                        "content_type", params.content_type),
                   "size", ToString(params.size)),
              MultipartDataType)
  /\ UNCHANGED <<chunkVars, laterVars>>
\* upload::Service::multipart_complete
UploadMultipartComplete(uuid, boundary) ==
  /\ FormCall("/multipart/complete/", Text(Form(<<>>, boundary), "uuid", uuid),
              UploadFileInfoType)
  /\ UNCHANGED <<chunkVars, laterVars>>

InitForms ==
  /\ now \in Instants
  /\ restClient = None
  /\ uploadClient \in {Some(upload_new(config, creds).value) :
                         config \in UploadConfigs, creds \in ValidCreds}
  /\ pc = "idle" /\ who = "none" /\ sent = None /\ expect = UnitType
  /\ nsent = 0 /\ resp = None /\ result = NoResult
  /\ InitNoAuth /\ InitNoChunks /\ InitNoLater
NextForms ==
  \/ \E params \in FileParamsSet, opens \in BOOLEAN, boundary \in Boundaries :
       UploadFile(params, opens, boundary)
  \/ \E params \in FromUrlParamsSet, boundary \in Boundaries : UploadFromUrl(params, boundary)
  \/ \E ids \in GroupIdLists, boundary \in Boundaries : UploadCreateGroup(ids, boundary)
  \/ \E params \in MultipartParamsSet, boundary \in Boundaries :
       UploadMultipartStart(params, boundary)
  \/ \E uuid \in FileIds, boundary \in Boundaries : UploadMultipartComplete(uuid, boundary)
  \/ Tick
  \/ SendFails
  \/ \E res \in FormResponses : Responds(res)
SpecForms == InitForms /\ [][NextForms]_vars
-----------------------------------------------------------------------------
(* Properties of the clients' calls                                        *)

\* the call has returned after the server answered
Answered == pc = "idle" /\ IsSome(resp)
\* the variant of ErrValue named after each status
Mirror ==
  (400 :> "BadRequest") @@ (401 :> "Unauthorized") @@ (403 :> "Forbidden")
    @@ (404 :> "NotFound") @@ (413 :> "PayloadTooLarge") @@ (429 :> "TooManyRequests")

\* C1: for both clients, whenever the response's status is 400, 401, 403,
\* 404, 413 or 429, the call returns Err with the ErrValue variant that
\* mirrors the status, whatever the body of the response.
C1_StatusMirrored ==
  (Answered /\ Unwrap(resp).status \in DOMAIN Mirror)
    => /\ result.tag = "Err"
       /\ result.err.variant = Mirror[Unwrap(resp).status]

\* C2: a call returns Ok only when the server answered with a 2xx status;
\* every 4xx or 5xx response, with any body and any expected type, makes the
\* call return Err.
C2_OkOnlyOnSuccess ==
  Answered =>
    /\ result.tag = "Ok" => Unwrap(resp).status \in 200..299
    /\ Unwrap(resp).status \in 400..599 => result.tag = "Err"

\* the call returned before a request existed: the URL did not parse, or the
\* auth closure panicked on the request just built
NothingBuilt ==
  \/ result = Err(ParseError)
  \/ result = Panic("set_auth_header")
\* C3: a call of a service executes at most one HTTP request, and exactly one
\* when the request could be built; no outcome of the request (transport
\* error, 429, another error status, a body that does not parse) makes the
\* library execute a second request.
C3_AtMostOneRequest ==
  /\ [](/\ nsent \in {0, 1}
        /\ pc = "sent" => nsent = 1 /\ IsSome(sent)
        /\ (pc = "idle" /\ result # NoResult) => (nsent = 0 <=> NothingBuilt))
  /\ [][pc = "sent" => nsent' = nsent]_vars
\* a call that got 429 has returned, one request executed
C3_Witness ==
  /\ Answered
  /\ Unwrap(resp).status = 429
  /\ result.tag = "Err"
  /\ nsent = 1

\* the header the client's scheme asks for on a request it sends
SchemeHeader(client, r) ==
  /\ AUTH_HEADER_KEY \in DOMAIN r.headers
  /\ IF client.set_auth_header = "sign_based"
     THEN LET prefix == SIGN_BASED_AUTH_SCHEME \o " " \o client.creds.pub_key \o ":"
              auth == r.headers[AUTH_HEADER_KEY]
          IN /\ StartsWith(auth, prefix)
             /\ Len(auth) = Len(prefix) + 40
             /\ \A i \in Len(prefix) + 1 .. Len(auth) : Find(HexDigits, SubSeq(auth, i, i)) # 0
     ELSE r.headers[AUTH_HEADER_KEY] =
            SIMPLE_AUTH_SCHEME \o " " \o client.creds.pub_key \o ":" \o client.creds.secret_key
\* C6: a REST client applies one of the two schemes, chosen at construction
\* from config.sign_based_auth: every request it sends carries the
\* Authorization header of that scheme ('Uploadcare <pub>:<signature>' or
\* 'Uploadcare.Simple <pub>:<secret>'), the scheme never changes afterwards,
\* and no request goes out without an Authorization header.
C6_OneSchemePerClient ==
  /\ []((pc = "sent" /\ who = "rest") => SchemeHeader(Unwrap(restClient), Unwrap(sent)))
  /\ [][restClient' # restClient =>
          /\ restClient = None
          /\ \E config \in RestConfigs, creds \in AcceptedCreds :
               /\ rest_new(config, creds) = Ok(Unwrap(restClient'))
               /\ Unwrap(restClient').set_auth_header =
                    IF config.sign_based_auth THEN "sign_based" ELSE "simple"]_vars
\* a sign-based client has a DELETE with a body in flight
C6_Witness ==
  /\ pc = "sent" /\ who = "rest"
  /\ Unwrap(restClient).set_auth_header = "sign_based"
  /\ Unwrap(sent).method = "DELETE"
  /\ StartsWith(Unwrap(sent).headers[AUTH_HEADER_KEY], "Uploadcare testpk:")

-----------------------------------------------------------------------------
(* Properties of the signing routines                                      *)

\* the invocation made last is one of routine, and it returned
Returned(routine) ==
  IsSome(invoked) /\ Unwrap(invoked).routine = routine /\ Unwrap(invoked).output.tag = "Ok"
\* METHOD, MD5 of the body, Content-Type, Date, path and query, one per line
SignString(r) ==
  LET body == IF IsSome(r.body) THEN Unwrap(r.body).bytes ELSE ""
      query == UrlQuery(r.url)
  IN r.method \o "\n" \o Md5Table[body] \o "\n" \o r.headers[CONTENT_TYPE] \o "\n"
       \o r.headers[DATE] \o "\n" \o UrlPath(r.url)
       \o (IF IsSome(query) THEN "?" \o Unwrap(query) ELSE "")
\* C4: the sign-based REST scheme signs METHOD, hex MD5 of the body bytes (of
\* the empty string without a body), Content-Type, Date, and the path with
\* '?' and the query if there is one, each followed by a newline but the
\* last; the Authorization header is 'Uploadcare <pub_key>:' and the
\* lowercase hex HMAC-SHA1 of that string under the secret key.
C4_SignedString ==
  /\ Md5TableIsMd5
  /\ HmacSha1TableIsHmacSha1
  /\ Returned("rest::auth::sign_based") =>
       LET i == Unwrap(invoked)
           p == <<i.creds.secret_key, SignString(i.input)>>
       IN /\ p \in DOMAIN HmacSha1Table
          /\ i.output.value.headers[AUTH_HEADER_KEY] =
               "Uploadcare " \o i.creds.pub_key \o ":" \o HmacSha1Table[p]
          /\ (i.input = TestSignReq /\ i.creds = ApiCreds("demoprivatekey", "testpk"))
               => i.output.value.headers[AUTH_HEADER_KEY] =
                    "Uploadcare testpk:3cbc4d2cf91f80c1ba162b926f8a975e8bec7995"
\* a DELETE with a body and no query has been signed
C4_Witness ==
  /\ Returned("rest::auth::sign_based")
  /\ Unwrap(invoked).input.method = "DELETE"
  /\ IsSome(Unwrap(invoked).input.body)
  /\ ~ IsSome(UrlQuery(Unwrap(invoked).input.url))

\* two invocations of one routine with the same credentials and inputs
SameCall ==
  /\ IsSome(kept) /\ IsSome(invoked)
  /\ Unwrap(kept).routine = Unwrap(invoked).routine
  /\ Unwrap(kept).creds = Unwrap(invoked).creds
  /\ Unwrap(kept).input = Unwrap(invoked).input
\* C5 as stated: each signing routine is a function of its explicit inputs:
\* two invocations with the same credentials and inputs return the same
\* output, whenever they are made and whatever is called in between.
C5_SameInputsSameOutput == SameCall => Unwrap(kept).output = Unwrap(invoked).output
\* C5: REST sign_based, get_signature and the simple routines return the same
\* output for the same credentials and inputs, whenever they are called; the
\* upload sign_based also reads the clock: its expire is the clock plus
\* SIGNED_UPLOAD_TTL and its signature that of the expire, so two invocations
\* return the same fields exactly when the clock reads the same.
C5_SameInputsAndClock ==
  /\ SameCall =>
       IF Unwrap(invoked).routine = "upload::auth::sign_based"
       THEN (Unwrap(kept).output = Unwrap(invoked).output)
              <=> (Unwrap(kept).at = Unwrap(invoked).at)
       ELSE Unwrap(kept).output = Unwrap(invoked).output
  /\ Returned("upload::auth::sign_based") =>
       LET i == Unwrap(invoked)
       IN /\ i.output.value.expire = Some(i.at + SIGNED_UPLOAD_TTL)
          /\ i.output.value.signature =
               Some(get_signature(i.creds.secret_key, i.at + SIGNED_UPLOAD_TTL))
\* REST sign_based has signed one request twice, at two instants
C5_Witness ==
  /\ SameCall
  /\ Returned("rest::auth::sign_based")
  /\ Unwrap(kept).at # Unwrap(invoked).at
  /\ Unwrap(kept).output = Unwrap(invoked).output

\* C7: for any credentials the simple scheme sets Authorization to exactly
\* 'Uploadcare.Simple <pub_key>:<secret_key>', replacing a header already
\* there, and leaves method, URL, body and the other headers as they were.
C7_SimpleHeader ==
  (IsSome(invoked) /\ Unwrap(invoked).routine = "rest::auth::simple") =>
    LET i == Unwrap(invoked)
    IN /\ i.output.tag = "Ok"
       /\ i.output.value.headers[AUTH_HEADER_KEY] =
            "Uploadcare.Simple " \o i.creds.pub_key \o ":" \o i.creds.secret_key
       /\ i.output.value.method = i.input.method
       /\ i.output.value.url = i.input.url
       /\ i.output.value.body = i.input.body
       /\ DOMAIN i.output.value.headers = DOMAIN i.input.headers \cup {AUTH_HEADER_KEY}
       /\ \A h \in DOMAIN i.input.headers \ {AUTH_HEADER_KEY} :
            i.output.value.headers[h] = i.input.headers[h]

-----------------------------------------------------------------------------
(* Properties of get_file_chunks                                           *)

ChunkOffset(i) == list_of_chunks[i][1]
ChunkLen(i) == list_of_chunks[i][2]
Returned_chunks == chunks_pc = "done"
\* C8: every chunk but the last has exactly chunk_size bytes, the last has
\* between 1 and chunk_size; no chunk is empty, also for an empty file (no
\* chunk at all) and for a length that is a multiple of chunk_size.
C8_ChunkSizes ==
  /\ \A i \in 1..Len(list_of_chunks) : ChunkLen(i) \in 1..chunk_size
  /\ \A i \in 1..Len(list_of_chunks) - 1 : ChunkLen(i) = chunk_size
  /\ (Returned_chunks /\ file_len = 0) => list_of_chunks = <<>>
\* a file of several full chunks and nothing more has been split
C8_Witness ==
  /\ Returned_chunks
  /\ file_len >= 2 * chunk_size
  /\ file_len % chunk_size = 0
  /\ Len(list_of_chunks) >= 2

\* C9: the chunks returned, in list order, are the file's bytes: the first
\* starts at byte 0, each starts where the one before ends, the last ends at
\* the end of the file; and there are ceil(file_len / chunk_size) of them.
C9_ChunksCoverFile ==
  Returned_chunks =>
    /\ \A i \in 1..Len(list_of_chunks) :
         ChunkOffset(i) = (IF i = 1 THEN 0 ELSE ChunkOffset(i - 1) + ChunkLen(i - 1))
    /\ IF list_of_chunks = <<>> THEN file_len = 0
       ELSE ChunkOffset(Len(list_of_chunks)) + ChunkLen(Len(list_of_chunks)) = file_len
    /\ Len(list_of_chunks) = (file_len + chunk_size - 1) \div chunk_size
\* a file of two full chunks and a rest has been split in three
C9_Witness ==
  /\ Returned_chunks
  /\ file_len = 2 * chunk_size + 420018
  /\ Len(list_of_chunks) = 3

\* C10: the loop ends for every file: it stops at the first read that
\* returns no byte or fewer than chunk_size bytes, and makes at most
\* floor(file_len / chunk_size) + 1 reads.
C10_LoopTerminates ==
  /\ [](reads <= file_len \div chunk_size + 1)
  /\ [][(chunks_pc = "loop" /\ chunks_pc' # "failed" /\ reads' = reads + 1)
          => (chunks_pc' = "done" <=> file_pos' - file_pos < chunk_size)]_vars
  /\ <>(chunks_pc \in {"done", "failed"})
\* the loop ended at the read after the last full chunk
C10_Witness ==
  /\ Returned_chunks
  /\ reads >= 3
  /\ reads = file_len \div chunk_size + 1
  /\ file_len % chunk_size = 0

-----------------------------------------------------------------------------
(* Properties of the multipart test                                        *)

\* the chunk an upload_part request carries
PartChunk(made) == Unwrap(made.request.body).bytes
\* C11: the multipart test makes its calls in the order multipart_start, one
\* upload_part per URL of the parts list, in list order, the i-th URL with
\* the i-th chunk of the file, then multipart_complete with the uuid that
\* multipart_start returned; multipart_complete is sent only after every
\* upload_part returned Ok, and when it is sent every chunk of the file has
\* been uploaded.
C11_MultipartOrder ==
  \A j \in 1..Len(mp_log) :
    /\ (j = 1) <=> (mp_log[j].op = "multipart_start")
    /\ mp_log[j].op = "upload_part" =>
         /\ j - 1 <= Len(Parts)
         /\ mp_log[j].request.url = Parts[j - 1]
         /\ PartChunk(mp_log[j]) = mp_file[j - 1]
    /\ mp_log[j].op = "multipart_complete" =>
         /\ j = Len(mp_log)
         /\ \A i \in 2..j - 1 : mp_log[i].op = "upload_part" /\ mp_log[i].result.tag = "Ok"
         /\ j - 2 = Len(Parts)
         /\ <<"uuid", Unwrap(Unwrap(mp_started).uuid)>> \in
              {Unwrap(mp_log[j].request.body).fields[i] :
                 i \in 1..Len(Unwrap(mp_log[j].request.body).fields)}
         /\ j - 2 = Len(mp_file)

\* the request that an upload_part call's own arguments determine
OwnRequest(call) ==
  Request("PUT", call.url, Insert(NoHeaders, CONTENT_TYPE, "application/octet-stream"),
          Some(Bytes_(call.data)))
PartCallers == {c \in Callers : callers[c].call.op = "upload_part"}
AllReturned == \A c \in Callers : callers[c].pc = "done"

\* C12: the library keeps no state between calls and imposes no ordering:
\* a call that has not begun can begin whatever the other callers are doing
\* (upload_part and multipart_complete alike, with no multipart_start before
\* them), no call changes the client, every request of an upload_part call
\* is the one its own url and data determine, and once all calls have
\* returned the set of part requests sent is the same for every
\* interleaving: the set the calls' arguments determine.
C12_NoSharedState ==
  /\ [](\A c \in Callers : callers[c].pc = "ready" => ENABLED BeginCall(c))
  /\ [][uploadClient' = uploadClient]_vars
  /\ [](\A i \in 1..Len(wire) :
          wire[i].caller \in PartCallers
            => wire[i].request = OwnRequest(callers[wire[i].caller].call))
  /\ [](AllReturned =>
          {wire[i].request : i \in {j \in 1..Len(wire) : wire[j].caller \in PartCallers}}
            = {OwnRequest(callers[c].call) :
                 c \in {d \in PartCallers : UrlParses(callers[d].call.url)}})
\* two part uploads with different urls and chunks went out in the order
\* opposite to the callers' numbering, and every call has returned
C12_Witness ==
  /\ AllReturned
  /\ Len(wire) >= 2
  /\ wire[1].caller = 2 /\ wire[2].caller = 1
  /\ {1, 2} \subseteq PartCallers
  /\ wire[1].request.url # wire[2].request.url
  /\ wire[1].request.body # wire[2].request.body

\* the form a logged call sent, as its list of <<name, value>> fields
SentFields(made) ==
  IF IsSome(made.request.body) /\ Unwrap(made.request.body).kind = "form"
  THEN Unwrap(made.request.body).fields ELSE <<>>
\* the values a form carries under a name
ValuesOf(fields, name) ==
  {fields[i][2] : i \in {k \in 1..Len(fields) : fields[k][1] = name}}
IsLowerHex(s) ==
  \A i \in 1..Len(s) :
    SubSeq(s, i, i) \in {"0", "1", "2", "3", "4", "5", "6", "7", "8", "9",
                         "a", "b", "c", "d", "e", "f"}

\* C13: the signature of the upload client is the lowercase hex
\* HMAC-SHA256, keyed with the secret key, of the decimal string of an
\* expire timestamp (the vector of tests::test_sign_based included), and in
\* every form sent with a 'signature' field there is exactly one 'expire'
\* field and the signature is the signature of that very value.
C13_SignatureOfExpire ==
  /\ HmacSha256TableIsHmacSha256
  /\ get_signature("project_secret_key", 1454903856)
       = "d39a461d41f607338abffee5f31da4d4e46535651c87346e76906bf75c064d47"
  /\ \A j \in 1..Len(mp_log) :
       \A s \in ValuesOf(SentFields(mp_log[j]), "signature") :
         /\ IsLowerHex(s) /\ Len(s) = 64
         /\ \E e \in ValuesOf(SentFields(mp_log[j]), "expire") :
              /\ ValuesOf(SentFields(mp_log[j]), "expire") = {e}
              /\ <<Unwrap(uploadClient).creds.secret_key, e>> \in DOMAIN HmacSha256Table
              /\ s = HmacSha256Table[<<Unwrap(uploadClient).creds.secret_key, e>>]
\* multipart_start and multipart_complete were both sent signed, the clock
\* having moved between them: two forms, two expire values, two signatures
C13_Witness ==
  /\ Len(mp_log) >= 2
  /\ ValuesOf(SentFields(mp_log[1]), "signature") # {}
  /\ ValuesOf(SentFields(mp_log[Len(mp_log)]), "signature") # {}
  /\ ValuesOf(SentFields(mp_log[1]), "expire")
       # ValuesOf(SentFields(mp_log[Len(mp_log)]), "expire")
  /\ ValuesOf(SentFields(mp_log[1]), "signature")
       # ValuesOf(SentFields(mp_log[Len(mp_log)]), "signature")

\* the service operation in progress or returned is op, and its request went out
Requested(op) == IsSome(sv_call) /\ Unwrap(sv_call).op = op /\ IsSome(sv_req)
\* the parameters of that operation, the URL and the JSON body of its request
CallParams == Unwrap(sv_call).params
RequestUrl == Unwrap(sv_req).url
RequestJson == ParseJson(Unwrap(Unwrap(sv_req).body).bytes)
\* the name=value pairs of a query string
RECURSIVE QueryPairs(_)
QueryPairs(q) ==
  IF Find(q, "&") = 0 THEN {q}
  ELSE {SubSeq(q, 1, Find(q, "&") - 1)} \cup QueryPairs(SubSeq(q, Find(q, "&") + 1, Len(q)))

\* C14: the request of file list carries exactly one limit: limit=100 when
\* ListParams.limit is None, limit=n when it is Some(n).
C14_FileListLimit ==
  Requested("file::list") =>
    {kv \in QueryPairs(Unwrap(UrlQuery(RequestUrl))) : StartsWith(kv, "limit=")}
      = {"limit=" \o (IF IsSome(CallParams.limit) THEN ToString(Unwrap(CallParams.limit))
                      ELSE "100")}

\* a JSON member of the request body has this kind and value
BodyHas(name, kind, value) ==
  /\ name \in DOMAIN RequestJson.doc.fields
  /\ RequestJson.doc.fields[name].kind = kind
  /\ RequestJson.doc.fields[name].value = value
BodyHasNull(name) ==
  name \in DOMAIN RequestJson.doc.fields /\ RequestJson.doc.fields[name].kind = "null"

\* C15: the body of webhook create is a JSON object whose is_active is true
\* when CreateParams.is_active is None and the caller's value when it is
\* Some(true) or Some(false), and whose event, target_url and signing_secret
\* are the caller's (a signing_secret of None going out as null).
C15_CreateDefaultsActive ==
  Requested("webhook::create") =>
    /\ RequestJson.ok /\ RequestJson.doc.kind = "object"
    /\ DOMAIN RequestJson.doc.fields = {"event", "target_url", "signing_secret", "is_active"}
    /\ BodyHas("is_active", "bool",
               IF IsSome(CallParams.is_active) THEN JBool(Unwrap(CallParams.is_active))
               ELSE "true")
    /\ BodyHas("event", "string", CallParams.event)
    /\ BodyHas("target_url", "string", CallParams.target_url)
    /\ IF IsSome(CallParams.signing_secret)
       THEN BodyHas("signing_secret", "string", Unwrap(CallParams.signing_secret))
       ELSE BodyHasNull("signing_secret")
\* create was called with is_active left None and a signing secret, its
\* request went out and the call has returned
C15_Witness ==
  /\ Requested("webhook::create")
  /\ sv_pc = "returned"
  /\ CallParams.is_active = None
  /\ IsSome(CallParams.signing_secret)
  /\ BodyHas("is_active", "bool", "true")

\* C16: the body of webhook update names id and, of event, target_url,
\* signing_secret and is_active, exactly those the caller set: a field left
\* None is absent from it.
C16_UpdateOmitsUnset ==
  Requested("webhook::update") =>
    /\ RequestJson.ok /\ RequestJson.doc.kind = "object"
    /\ DOMAIN RequestJson.doc.fields
         = {"id"} \cup {f \in {"event", "target_url", "signing_secret", "is_active"} :
                          IsSome(CallParams[f])}

\* what Client::call returned to webhook delete
Underlying ==
  IF IsSome(resp) THEN rest_result(Unwrap(resp), StringType) ELSE Err(SendError)
\* C17: webhook delete returns Ok(()) whenever the response has a success
\* status, whatever its body, and returns Err exactly when the underlying
\* call failed with an error whose text does not contain "EOF".
C17_DeleteIgnoresBody ==
  (Requested("webhook::delete") /\ sv_pc = "returned") =>
    /\ (IsSome(resp) /\ Unwrap(resp).status \in 200..299) => sv_out = Ok("()")
    /\ sv_out.tag = "Err"
         <=> (Underlying.tag = "Err" /\ ~ Contains(error_to_string(Underlying.err), "EOF"))

\* the family of endpoints of a service
ServicePrefix(op) ==
  IF StartsWith(op, "file::") THEN "/files/"
  ELSE IF StartsWith(op, "group::") THEN "/groups/"
  ELSE IF StartsWith(op, "conversion::") THEN "/convert/"
  ELSE IF StartsWith(op, "webhook::") THEN "/webhooks/"
  ELSE "/project/"
\* C19: every request a service operation builds through Client::call goes
\* to scheme and host https://api.uploadcare.com, and its URL path is a path
\* of the operation's service (under /files/, /groups/, /convert/,
\* /webhooks/ or /project/); conversion video_status included.
C19_ApiHostAndPath ==
  (IsSome(sv_call) /\ IsSome(sv_req)) =>
    /\ UrlOrigin(RequestUrl) = "https://api.uploadcare.com"
    /\ StartsWith(UrlPath(RequestUrl), ServicePrefix(Unwrap(sv_call).op))

\* C20: document_status(token) and video_status(token) each issue a GET
\* without body, to /convert/document/status/<token>/ and
\* /convert/video/status/<token>/; document and video each issue a POST
\* whose body is the JSON of the JobParams.
C20_ConversionSymmetric ==
  /\ Requested("conversion::document_status") =>
       /\ Unwrap(sv_req).method = "GET" /\ Unwrap(sv_req).body = None
       /\ UrlPath(RequestUrl) = "/convert/document/status/" \o ToString(CallParams) \o "/"
  /\ Requested("conversion::video_status") =>
       /\ Unwrap(sv_req).method = "GET" /\ Unwrap(sv_req).body = None
       /\ UrlPath(RequestUrl) = "/convert/video/status/" \o ToString(CallParams) \o "/"
  /\ (Requested("conversion::document") \/ Requested("conversion::video")) =>
       /\ Unwrap(sv_req).method = "POST"
       /\ RequestJson.ok /\ RequestJson.doc.kind = "object"
       /\ DOMAIN RequestJson.doc.fields = {"paths", "store"}
       /\ BodyHas("paths", "array", CallParams.paths)
       /\ IF IsSome(CallParams.store)
          THEN BodyHas("store", "string", Unwrap(CallParams.store))
          ELSE BodyHasNull("store")

\* the results of the first n pages of the chain, concatenated
RECURSIVE Concatenated(_)
Concatenated(n) ==
  IF n = 0 THEN <<>> ELSE Concatenated(n - 1) \o pg_chain[n].results
\* the loop stopped with an error: returned by ?, or carried by the panic
StoppedWithError ==
  pg_pc \in {"failed", "panicked"} /\ "err" \in DOMAIN pg_out

\* C18: the documented pagination loop requests every page exactly once in
\* the order the server links them (the URLs asked are those of pages 1, 2,
\* ... and the loop is done only when it has asked for all of them), holds
\* exactly the concatenation of the results of the pages it took, ends for
\* every finite chain (it asks for at most one URL per page, and a link it
\* still holds is that of a page not yet asked for), and a page request
\* the server failed stops the loop with that error.
C18_PaginationLoop ==
  /\ Len(pg_asked) <= Len(pg_chain)
  /\ \A i \in 1..Len(pg_asked) : pg_asked[i] = PageUrl(pg_svc, i)
  /\ pg_pc = "done" => Len(pg_asked) = Len(pg_chain)
  /\ (pg_pc \in {"loop", "done"} /\ pg_fail = None)
       => pg_files = Concatenated(Len(pg_asked))
  /\ (pg_pc = "loop" /\ IsSome(pg_next))
       => (Len(pg_asked) < Len(pg_chain)
             /\ Unwrap(pg_next) = PageUrl(pg_svc, Len(pg_asked) + 1))
  /\ IsSome(pg_fail) => StoppedWithError

-----------------------------------------------------------------------------
(* Properties of the 429 answer                                            *)

\* C21: for every 429 response, the REST client returns
\* Err(TooManyRequests(n)) with n the seconds of the Retry-After header and
\* the upload client returns Err(TooManyRequests(30)); in both clients the
\* 429 always yields an Err value returned to the caller, never a panic,
\* also when Retry-After is absent or not an integer.
C21_TooManyRequests ==
  (Answered /\ Unwrap(resp).status = 429)
    => /\ result.tag = "Err"
       /\ result.err.variant = "TooManyRequests"
       /\ who = "upload" => result = Err(TooManyRequests(30))
       /\ (/\ who = "rest"
           /\ RETRY_AFTER \in DOMAIN Unwrap(resp).headers
           /\ ParseI32(Unwrap(resp).headers[RETRY_AFTER]).ok)
            => result = Err(TooManyRequests(
                              ParseI32(Unwrap(resp).headers[RETRY_AFTER]).value))

-----------------------------------------------------------------------------
(* Properties of the copy operations                                       *)

\* the member of the request body for an optional string parameter: the
\* value when it is Some, no member when it is None
BodyHasOpt(name, opt) ==
  IF IsSome(opt) THEN BodyHas(name, "string", Unwrap(opt))
  ELSE name \notin DOMAIN RequestJson.doc.fields
\* the request body is a JSON object with the source, target and pattern of
\* the call, a None target or pattern left out, and no member besides those
\* of CopyParams
CopyBodyAsGiven ==
  /\ RequestJson.ok /\ RequestJson.doc.kind = "object"
  /\ DOMAIN RequestJson.doc.fields
       \subseteq {"source", "store", "make_public", "target", "pattern"}
  /\ BodyHas("source", "string", CallParams.source)
  /\ BodyHasOpt("target", CallParams.target)
  /\ BodyHasOpt("pattern", CallParams.pattern)

\* C22: local_copy always sends store and make_public, false and true when
\* the caller left them None and the caller's values otherwise; remote_copy
\* defaults only make_public (to true) and leaves a None store out; copy
\* applies no default; all three send source, target and pattern as given
\* and leave a None target or pattern out of the JSON body.
C22_CopyDefaults ==
  /\ Requested("file::local_copy") =>
       /\ CopyBodyAsGiven
       /\ BodyHas("store", "string",
                  IF IsSome(CallParams.store) THEN Unwrap(CallParams.store) ELSE "false")
       /\ BodyHas("make_public", "string",
                  IF IsSome(CallParams.make_public) THEN Unwrap(CallParams.make_public)
                  ELSE "true")
  /\ Requested("file::remote_copy") =>
       /\ CopyBodyAsGiven
       /\ BodyHasOpt("store", CallParams.store)
       /\ BodyHas("make_public", "string",
                  IF IsSome(CallParams.make_public) THEN Unwrap(CallParams.make_public)
                  ELSE "true")
  /\ Requested("file::copy") =>
       /\ CopyBodyAsGiven
       /\ BodyHasOpt("store", CallParams.store)
       /\ BodyHasOpt("make_public", CallParams.make_public)
\* local_copy was called with store, make_public and pattern left None and
\* a target, its request went out with both defaults and the call returned
C22_Witness ==
  /\ Requested("file::local_copy")
  /\ sv_pc = "returned"
  /\ CallParams.store = None /\ CallParams.make_public = None
  /\ CallParams.target = Some("s3") /\ CallParams.pattern = None
  /\ BodyHas("store", "string", "false")
  /\ BodyHas("make_public", "string", "true")
  /\ DOMAIN RequestJson.doc.fields = {"source", "store", "make_public", "target"}

-----------------------------------------------------------------------------
(* Properties of Client::new                                               *)

\* the invocation made last is Client::new of one of the two clients
Constructed ==
  IsSome(invoked)
    /\ Unwrap(invoked).routine \in {"rest::Client::new", "upload::Client::new"}
\* the client the caller holds after that invocation, None when it holds none
Constructs ==
  IF Unwrap(invoked).routine = "rest::Client::new" THEN restClient ELSE uploadClient

\* C23: Client::new of the REST and of the upload client returns Err, and
\* constructs no client, exactly when secret_key or pub_key is the empty
\* string; for every non-empty pair it returns Ok, whatever the
\* configuration (both auth schemes, both API versions).
C23_NewErrIffEmpty ==
  Constructed =>
    LET i == Unwrap(invoked)
        empty == i.creds.secret_key = "" \/ i.creds.pub_key = ""
    IN /\ i.output.tag = "Err" <=> empty
       /\ i.output.tag = "Ok" <=> ~ empty
       /\ i.output.tag = "Err" => Constructs = None
       /\ i.output.tag = "Ok" => Constructs = Some(i.output.value)

-----------------------------------------------------------------------------
(* Properties of the order of call_url's steps                             *)

\* the request in flight without the Authorization header and without the
\* headers the http client adds by default
Unsigned(client, r) ==
  [r EXCEPT !.headers =
     [h \in DOMAIN r.headers \ ({AUTH_HEADER_KEY} \cup DOMAIN client.default_headers)
        |-> r.headers[h]]]
\* the requests call_url builds before the auth closure runs
Builds ==
  {rest_build(c.method, encode_url(API_URL, c.path, c.query).url, c.data, t) :
     c \in RestCalls, t \in Instants}
    \cup {rest_build("GET", url, None, t) : url \in {u \in PageUrls : UrlParses(u)},
                                            t \in Instants}

\* C24: in REST call_url the auth closure runs on the request whose method,
\* URL, Date, Content-Type and body are final: the request executed is the
\* built one with nothing changed but the Authorization header, the
\* sign-based signature is that of the method, body hash, Content-Type, Date
\* and path transmitted, and the closure never fails for a missing Date or
\* Content-Type.
C24_SignedIsSent ==
  /\ (pc = "sent" /\ who = "rest") =>
       LET r == Unwrap(sent)
           client == Unwrap(restClient)
       IN /\ Unsigned(client, r) \in Builds
          /\ {DATE, CONTENT_TYPE, AUTH_HEADER_KEY} \subseteq DOMAIN r.headers
          /\ client.set_auth_header = "sign_based" =>
               /\ <<client.creds.secret_key, SignString(r)>> \in DOMAIN HmacSha1Table
               /\ r.headers[AUTH_HEADER_KEY] =
                    SIGN_BASED_AUTH_SCHEME \o " " \o client.creds.pub_key \o ":"
                      \o HmacSha1Table[<<client.creds.secret_key, SignString(r)>>]
  /\ (who = "rest" /\ result = Panic("set_auth_header")) =>
       \A b \in Builds : {DATE, CONTENT_TYPE} \subseteq DOMAIN b.headers
  /\ \A b \in Builds :
       IsSome(restClient) /\ set_auth_header_panics(Unwrap(restClient), b)
         => ~ HeaderValueFromStr(Unwrap(restClient).creds.secret_key)
\* a sign-based client has a DELETE with a body in flight, signed as sent
C24_Witness ==
  /\ pc = "sent" /\ who = "rest"
  /\ Unwrap(restClient).set_auth_header = "sign_based"
  /\ Unwrap(sent).method = "DELETE"
  /\ IsSome(Unwrap(sent).body)
  /\ Unwrap(sent).headers[AUTH_HEADER_KEY] =
       "Uploadcare testpk:"
         \o HmacSha1Table[<<Unwrap(restClient).creds.secret_key, SignString(Unwrap(sent))>>]

-----------------------------------------------------------------------------
(* Properties of the Date header                                           *)

\* call_url has built a request, the last thing done
Stamped == IsSome(invoked) /\ Unwrap(invoked).routine = "rest::Client::call_url"
\* the Date header of that request and the instant it was built at
StampedDate == Unwrap(invoked).output.value.headers[DATE]
StampedAt == Unwrap(invoked).at
\* the calendar date <<year, month, day>> of an instant, in UTC
UtcDate(t) == CivilFromDays(t \div 86400)

\* C25: the Date header the REST client sends denotes the current UTC
\* instant as 'Www, DD Mon YYYY HH:MM:SS GMT': for every instant, the days
\* around 1 January included, its year is the calendar year of the UTC date,
\* its day, month, weekday and time are those of the instant, and its zone
\* is GMT.
C25_DateHeaderYear ==
  Stamped =>
    /\ Len(StampedDate) = 29
    /\ SubSeq(StampedDate, 1, 5) = WeekdayNames[IsoWeekday(StampedAt \div 86400)] \o ", "
    /\ SubSeq(StampedDate, 6, 8) = Pad2(UtcDate(StampedAt)[3]) \o " "
    /\ SubSeq(StampedDate, 9, 12) = MonthNames[UtcDate(StampedAt)[2]] \o " "
    /\ SubSeq(StampedDate, 13, 17) = ToString(UtcDate(StampedAt)[1]) \o " "
    /\ SubSeq(StampedDate, 18, 26) =
         Pad2((StampedAt % 86400) \div 3600) \o ":" \o Pad2(((StampedAt % 86400) \div 60) % 60)
           \o ":" \o Pad2(StampedAt % 60) \o " "
    /\ SubSeq(StampedDate, 27, 29) = "GMT"

-----------------------------------------------------------------------------
(* Properties of the upload auth fields                                    *)

\* the auth closure of the upload client has produced fields, the last thing
\* recorded
FieldsProduced ==
  IsSome(invoked) /\ Unwrap(invoked).routine = "upload::Client::auth_fields"
\* a form of one of the five operations is in flight
FormInFlight ==
  /\ pc = "sent" /\ who = "upload"
  /\ IsSome(Unwrap(sent).body) /\ Unwrap(Unwrap(sent).body).kind = "form"
\* the names of the parts of that form, and the values of the parts of a name
PartNames ==
  {Unwrap(Unwrap(sent).body).fields[i][1] :
     i \in 1..Len(Unwrap(Unwrap(sent).body).fields)}
PartValues(name) ==
  {Unwrap(Unwrap(sent).body).fields[i][2] :
     i \in {j \in 1..Len(Unwrap(Unwrap(sent).body).fields) :
              Unwrap(Unwrap(sent).body).fields[j][1] = name}}
FormPaths ==
  {"/base/", "/from_url/", "/group/", "/multipart/start/", "/multipart/complete/"}

\* C26: upload auth fields are all-or-nothing: every Fields value produced
\* has signature and expire both None (simple uploads) or both Some (signed
\* uploads), and every form of file, from_url, create_group, multipart_start
\* and multipart_complete carries UPLOADCARE_PUB_KEY and pub_key, both the
\* client's public key, and either both signature and expire or neither.
C26_AllOrNothing ==
  /\ FieldsProduced =>
       LET f == Unwrap(invoked).output.value
       IN /\ IsSome(f.signature) <=> IsSome(f.expire)
          /\ IsSome(f.signature)
               <=> Unwrap(uploadClient).auth_fields = "sign_based"
          /\ f.pub_key = Unwrap(uploadClient).creds.pub_key
  /\ FormInFlight =>
       /\ UrlPath(Unwrap(sent).url) \in FormPaths
       /\ PartValues("UPLOADCARE_PUB_KEY") = {Unwrap(uploadClient).creds.pub_key}
       /\ PartValues("pub_key") = {Unwrap(uploadClient).creds.pub_key}
       /\ "signature" \in PartNames <=> "expire" \in PartNames
       /\ "signature" \in PartNames <=> IsSome(Unwrap(invoked).output.value.signature)
       /\ "signature" \in PartNames =>
            /\ PartValues("signature") = {Unwrap(Unwrap(invoked).output.value.signature)}
            /\ PartValues("expire") =
                 {ToString(Unwrap(Unwrap(invoked).output.value.expire))}
\* a create_group of two files is in flight from a client that signs its
\* uploads: both fields are Some and the form carries all four parts
C26_Witness ==
  /\ FormInFlight
  /\ FieldsProduced
  /\ UrlPath(Unwrap(sent).url) = "/group/"
  /\ "files[1]" \in PartNames
  /\ IsSome(Unwrap(invoked).output.value.signature)
  /\ IsSome(Unwrap(invoked).output.value.expire)
  /\ {"UPLOADCARE_PUB_KEY", "pub_key", "signature", "expire"} \subseteq PartNames
====
